---- MODULE Spec2Model ----
(***************************************************************************)
(* Document-structure and cross-reference resolution engine of the         *)
(* EnergyPlus documentation converter (scripts/convert.py,                 *)
(* scripts/nav_generator.py, scripts/markdown_postprocessor.py).           *)
(*                                                                         *)
(* Strings are sequences of atoms.  An atom is either one reserved         *)
(* character ("/", ":", "%", "#", "&", "<", ...) or a run of unreserved    *)
(* characters that the code never splits ("a", "index", ".md", "src").     *)
(* Every string operation of the code (endswith, slicing, replace, split,  *)
(* join, f-string concatenation) is computed on these sequences.           *)
(***************************************************************************)
EXTENDS Naturals, Integers, Sequences, FiniteSets, TLC

VARIABLES
    \* ---- _relative_url called on a pair of output paths
    target_md_path,     \* argument target_md_path (string)
    url_current,        \* argument current_md_path (string)
    url_pages,          \* the two pages as (dirs, stem) pairs the strings were rendered from
    url_result,         \* the returned URL (string)
    url_pc,             \* "call" | "done"
    \* ---- _label_to_mjx_anchor called on a label
    anchor_label,       \* argument label (string)
    anchor_result,      \* the returned anchor (string)
    anchor_pc,          \* "call" | "done"
    \* ---- the reference resolver run on one page (postprocess)
    res_input,          \* the converted text given to postprocess (list of items)
    res_text,           \* the text as rewritten so far (list of items)
    res_index,          \* label_index: label -> LabelRef
    current_md_path,    \* output path of the page being processed (string)
    res_pc,             \* "eqrefs" | "crossrefs" | "done"
    \* ---- generate_nav run on one documentation set
    nav_fs,             \* the doc-set directory: file (path without ".tex") -> content
    nav_inputs,         \* inputs: the list returned by parse_input_chain
    nav_items,          \* the list returned by build_nav_tree
    nav_pc,             \* "parse" | "build" | "done"
    \* ---- convert_version run on one release
    doc_dir,            \* the doc/ directory: entry name -> [is_dir, fs]
    listing,            \* the order in which doc_dir.iterdir() yields the entries
    doc_sets,           \* doc_sets: the list returned by discover_doc_sets
    label_index,        \* label_index: label -> LabelRef
    docs,               \* the files written below <output_dir>/docs: path -> page
    doc_set_results,    \* result.doc_set_results
    build,              \* [build_success, build_error] of the VersionResult
    rel_pc,              \* "discover" | "index" | "convert" | "finish" | "done"
    \* ---- extract_heading called on one .tex file
    tex_path,           \* argument tex_path (string, without ".tex")
    tex_exists,         \* tex_path.exists()
    tex_headings,       \* the headings the file was written with
    tex_text,           \* the text of the file (string)
    heading,            \* the returned (title, level)
    head_pc,            \* "call" | "done"
    \* ---- convert_all.main run on a list of versions
    versions,           \* versions: the requested version tags
    max_workers,        \* args.max_workers
    force_rebuild,      \* args.force_rebuild
    skip_build,         \* args.skip_build
    site_exists,        \* the build directories <output_dir> that hold site/
    sources,            \* version -> state of build/sources/<version>
    workers,            \* version -> the frame of its process_version call
    futures,            \* version -> the state of its future
    results,            \* results: version -> VersionResult
    dist,               \* the deployment directory
    orch_pc,            \* "submit" | "collect" | "merge" | "done"
    \* ---- the resolver calls of postprocess on the text of one page
    sub_segments,       \* the pieces the text was written from
    sub_index,          \* label_index: label -> LabelRef
    sub_current,        \* current_md_path (string)
    sub_text,           \* text (string)
    sub_first,          \* the text after the first application
    sub_pc              \* "eqrefs" | "crossrefs" | "eqrefs again" | "crossrefs again" | "done"

urlVars == <<target_md_path, url_current, url_pages, url_result, url_pc>>
anchorVars == <<anchor_label, anchor_result, anchor_pc>>
resVars == <<res_input, res_text, res_index, current_md_path, res_pc>>
navVars == <<nav_fs, nav_inputs, nav_items, nav_pc>>
relVars == <<doc_dir, listing, doc_sets, label_index, docs, doc_set_results,
             build, rel_pc>>
headVars == <<tex_path, tex_exists, tex_headings, tex_text, heading, head_pc>>
orchVars == <<versions, max_workers, force_rebuild, skip_build, site_exists,
              sources, workers, futures, results, dist, orch_pc>>
subVars == <<sub_segments, sub_index, sub_current, sub_text, sub_first, sub_pc>>
vars == <<urlVars, anchorVars, resVars, navVars, relVars, headVars, orchVars,
          subVars>>

(***************************************************************************)
(* Bounds of the model.                                                    *)
(***************************************************************************)
\* longest directory part (in segments) of an output path given to _relative_url
MaxDirs == 2
\* longest label (in atoms) given to _label_to_mjx_anchor
MaxLabelLen == 4
\* largest equation number stored in a LabelRef given to the resolver
MaxOrdinal == 3
\* most \input directives in the main .tex file of a documentation set
MaxIncludes == 2
\* most \input directives in an included .tex file
MaxFileIncludes == 2
\* most \label declarations in one .tex file of a release
MaxLabelsPerUnit == 1
\* most headings in a .tex file given to extract_heading
MaxHeadings == 2
\* most version tags requested from convert_all
MaxVersions == 2
\* largest --max-workers given to convert_all
MaxPoolWorkers == 2
\* most pieces (runs of text, links, markers) in the text of a page
MaxSegments == 2

(***************************************************************************)
(* String helpers (Python str methods on atom sequences).                  *)
(***************************************************************************)
\* s.endswith(suf)
EndsWith(s, suf) ==
    /\ Len(s) >= Len(suf)
    /\ SubSeq(s, Len(s) - Len(suf) + 1, Len(s)) = suf

\* s.startswith(pre)
StartsWith(s, pre) ==
    /\ Len(s) >= Len(pre)
    /\ SubSeq(s, 1, Len(pre)) = pre

\* s[:-n]
DropLast(s, n) == SubSeq(s, 1, Len(s) - n)

\* s[n:]
DropFirst(s, n) == SubSeq(s, n + 1, Len(s))

\* s.split("/"): the list of the pieces between separators (pieces may be empty)
RECURSIVE SplitSlash(_)
SplitSlash(s) ==
    IF \A i \in 1..Len(s) : s[i] # "/"
    THEN <<s>>
    ELSE LET k == CHOOSE i \in 1..Len(s) :
                      /\ s[i] = "/"
                      /\ \A j \in 1..(i - 1) : s[j] # "/"
         IN  <<SubSeq(s, 1, k - 1)>> \o SplitSlash(DropFirst(s, k))

\* "/".join(parts)
RECURSIVE JoinSlash(_)
JoinSlash(parts) ==
    IF parts = <<>> THEN <<>>
    ELSE IF Len(parts) = 1 THEN parts[1]
    ELSE parts[1] \o <<"/">> \o JoinSlash(Tail(parts))

\* the concatenation of a list of strings
RECURSIVE Concat(_)
Concat(parts) ==
    IF parts = <<>> THEN <<>> ELSE parts[1] \o Concat(Tail(parts))

(***************************************************************************)
(* posixpath                                                               *)
(***************************************************************************)
\* posixpath.normpath on a list of path components: "" and "." are dropped,
\* ".." removes the component before it (kept when there is none to remove)
RECURSIVE NormComps(_, _)
NormComps(comps, acc) ==
    IF comps = <<>> THEN acc
    ELSE LET c == Head(comps)
         IN  IF c = <<>> \/ c = <<".">>
             THEN NormComps(Tail(comps), acc)
             ELSE IF c = <<"..">> /\ acc # <<>> /\ acc[Len(acc)] # <<"..">>
                  THEN NormComps(Tail(comps), DropLast(acc, 1))
                  ELSE NormComps(Tail(comps), Append(acc, c))

\* the components of abspath(p) below the working directory
AbsComps(p) == NormComps(SplitSlash(p), <<>>)

\* len(commonprefix([a, b])) for two component lists
CommonPrefixLen(a, b) ==
    LET m == IF Len(a) < Len(b) THEN Len(a) ELSE Len(b)
        agree == {i \in 0..m : \A j \in 1..i : a[j] = b[j]}
    IN  CHOOSE i \in agree : \A k \in agree : k <= i

\* posixpath.relpath(path, start)
relpath(path, start) ==
    LET start_list == AbsComps(start)
        path_list == AbsComps(path)
        i == CommonPrefixLen(start_list, path_list)
        rel_list == [k \in 1..(Len(start_list) - i) |-> <<"..">>]
                        \o DropFirst(path_list, i)
    IN  IF rel_list = <<>> THEN <<".">> ELSE JoinSlash(rel_list)

\* posixpath.dirname(p)
dirname(p) ==
    LET slashes == {i \in 1..Len(p) : p[i] = "/"}
    IN  IF slashes = {} THEN <<>>
        ELSE LET k == CHOOSE i \in slashes : \A j \in slashes : j <= i
             IN  SubSeq(p, 1, k - 1)

(***************************************************************************)
(* markdown_postprocessor._relative_url                                    *)
(***************************************************************************)
\* mutant: index pages are not recognised, only the extension is stripped
to_url_dir_no_index(md_path) ==
    IF EndsWith(md_path, <<".md">>) THEN DropLast(md_path, 1) ELSE md_path

\* _to_url_dir: the URL-level directory of a .md path
to_url_dir(md_path) ==
    IF EndsWith(md_path, <<"/", "index", ".md">>) THEN DropLast(md_path, 3)
    ELSE IF EndsWith(md_path, <<".md">>) THEN DropLast(md_path, 1)
    ELSE md_path

\* mutant: the URL is computed from the directory of the current file, as for
\* a Markdown link, not from the directory the page is served at
relative_url_file_dir(target, current) ==
    relpath(to_url_dir(target), dirname(current)) \o <<"/">>

relative_url(target, current) ==
    relpath(to_url_dir(target), to_url_dir(current)) \o <<"/">>

(***************************************************************************)
(* markdown_postprocessor._label_to_mjx_anchor                             *)
(***************************************************************************)
\* label.replace(":", "%3A")
replace_colon(label) ==
    Concat([i \in 1..Len(label) |->
                IF label[i] = ":" THEN <<"%", "3", "A">> ELSE <<label[i]>>])

label_to_mjx_anchor(label) == <<"mjx-eqn-">> \o replace_colon(label)


(***************************************************************************)
(* markdown_postprocessor: reference resolution                            *)
(*                                                                         *)
(* A text is a list of items.  An item is a run of other text, a link      *)
(* "[link_text](#crossref:label)", or a marker                             *)
(* <span class="eqref-placeholder" data-label="label"></span>; re.sub      *)
(* replaces each match of its pattern by the string the callback returns.  *)
(***************************************************************************)
TextItem(s) == [kind |-> "text", s |-> s]
CrossrefItem(link_text, label) ==
    [kind |-> "crossref", link_text |-> link_text, label |-> label]
EqrefItem(label) == [kind |-> "eqref", label |-> label]

\* html.escape(s): one entity per reserved character
html_escape_atom(c) ==
    IF c = "&" THEN "&amp;"
    ELSE IF c = "<" THEN "&lt;"
    ELSE IF c = ">" THEN "&gt;"
    ELSE IF c = "\"" THEN "&quot;"
    ELSE IF c = "'" THEN "&#x27;"
    ELSE c

html_escape(s) == [i \in 1..Len(s) |-> html_escape_atom(s[i])]

\* str(n)
str(n) == <<ToString(n)>>

\* f"$\\eqref{{{label}}}$"
eqref_inline(label) == <<"$\\eqref{">> \o label \o <<"}$">>

\* mutant: the page test compares the target with the current page's directory
is_same_page_vs_dir(ref, current) == ref.output_path = dirname(current)

\* ref.output_path == current_md_path
is_same_page(ref, current) == ref.output_path = current

\* f'<a href="{target_url}#{anchor}" class="eq-ref" data-equation="{escaped_latex}">{text}</a>'
eq_ref_link(ref, label, current, text) ==
    LET target_url == relative_url(ref.output_path, current)
        anchor == label_to_mjx_anchor(label)
        escaped_latex == IF ref.equation_latex # <<>>
                         THEN html_escape(ref.equation_latex) ELSE <<>>
    IN  <<"<a", " href=", "\"">> \o target_url \o <<"#">> \o anchor
            \o <<"\"", " class=", "\"", "eq-ref", "\"", " data-equation=", "\"">>
            \o escaped_latex \o <<"\"", ">">> \o text \o <<"</a>">>

\* mutant: the link keeps the path relative to the docs root
relative_target_path_root(ref, current) == ref.output_path

\* target_path = ref.output_path, made relative to the current page's directory
relative_target_path(ref, current) ==
    LET current_dir == IF current # <<>> THEN dirname(current) ELSE <<>>
    IN  IF current_dir # <<>> THEN relpath(ref.output_path, current_dir)
        ELSE ref.output_path

\* mutant: the unresolved link keeps the placeholder scheme
unresolved_link_keeps_scheme(link_text, label) ==
    <<"[">> \o link_text \o <<"]", "(", "#", "crossref", ":">> \o label \o <<")">>

\* f"[{link_text}](#{label})"
unresolved_link(link_text, label) ==
    <<"[">> \o link_text \o <<"]", "(", "#">> \o label \o <<")">>

\* the callback of resolve_cross_references
resolve_crossref(link_text, label, index, current) ==
    IF label \in DOMAIN index
    THEN LET ref == index[label]
         IN  IF ref.label_type = "equation"
             THEN IF is_same_page(ref, current)
                  THEN eqref_inline(label)
                  ELSE eq_ref_link(ref, label, current,
                           IF ref.equation_number # 0
                           THEN str(ref.equation_number) ELSE <<"#">>)
             ELSE LET anchor == IF ref.heading_anchor # <<>>
                                THEN <<"#">> \o ref.heading_anchor ELSE <<>>
                  IN  <<"[">> \o link_text \o <<"]", "(">>
                          \o relative_target_path(ref, current) \o anchor \o <<")">>
    ELSE unresolved_link(link_text, label)

\* the callback of resolve_equation_references
resolve_eqref(label, index, current) ==
    IF label \in DOMAIN index
    THEN LET ref == index[label]
         IN  IF ref.label_type = "equation"
             THEN IF is_same_page(ref, current)
                  THEN eqref_inline(label)
                  ELSE eq_ref_link(ref, label, current,
                           <<"(">> \o (IF ref.equation_number # 0
                                       THEN str(ref.equation_number) ELSE <<"?">>)
                               \o <<")">>)
             ELSE <<"[", "Eq.", "]", "(">> \o relative_target_path(ref, current)
                      \o <<")">>
    ELSE eqref_inline(label)

\* resolve_equation_references(text, index, current_md_path)
resolve_equation_references(text, index, current) ==
    [i \in 1..Len(text) |->
        IF text[i].kind = "eqref"
        THEN TextItem(resolve_eqref(text[i].label, index, current))
        ELSE text[i]]

\* resolve_cross_references(text, index, current_md_path)
resolve_cross_references(text, index, current) ==
    [i \in 1..Len(text) |->
        IF text[i].kind = "crossref"
        THEN TextItem(resolve_crossref(text[i].link_text, text[i].label,
                                       index, current))
        ELSE text[i]]


(***************************************************************************)
(* nav_generator.parse_input_chain                                         *)
(*                                                                         *)
(* A doc-set directory is a function from the files that exist (path       *)
(* relative to the directory, without ".tex") to their content: the        *)
(* \input{src/...} directives and the \label{...} declarations, each in    *)
(* textual order, and the first heading if there is one.                   *)
(***************************************************************************)
TexFile(includes, labels) ==
    [includes |-> includes, labels |-> labels, heading |-> <<>>]

\* the main .tex file of the directory
MainTex == <<"main">>

\* mutant: the children of an included file are appended after all the
\* includes of the including file (breadth-first)
RECURSIVE parse_input_chain_children_last(_, _)
parse_input_chain_children_last(fs, tex) ==
    IF tex \notin DOMAIN fs THEN <<>>
    ELSE LET incl == fs[tex].includes
         IN  incl \o Concat([i \in 1..Len(incl) |->
                 IF incl[i] \in DOMAIN fs /\ fs[incl[i]].includes # <<>>
                 THEN parse_input_chain_children_last(fs, incl[i])
                 ELSE <<>>])

\* mutant: what an included file includes is listed before the file itself
RECURSIVE parse_input_chain_children_first(_, _)
parse_input_chain_children_first(fs, tex) ==
    IF tex \notin DOMAIN fs THEN <<>>
    ELSE LET incl == fs[tex].includes
         IN  Concat([i \in 1..Len(incl) |->
                 (IF incl[i] \in DOMAIN fs /\ fs[incl[i]].includes # <<>>
                  THEN parse_input_chain_children_first(fs, incl[i])
                  ELSE <<>>) \o <<incl[i]>>])

\* parse_input_chain(main_tex, _root=root): every include, followed by what
\* the included file includes when that file exists and holds "\input{src/"
RECURSIVE parse_input_chain(_, _)
parse_input_chain(fs, tex) ==
    IF tex \notin DOMAIN fs THEN <<>>
    ELSE LET incl == fs[tex].includes
         IN  Concat([i \in 1..Len(incl) |->
                 <<incl[i]>> \o
                 (IF incl[i] \in DOMAIN fs /\ fs[incl[i]].includes # <<>>
                  THEN parse_input_chain(fs, incl[i])
                  ELSE <<>>)])

(***************************************************************************)
(* nav_generator.extract_heading, input_path_to_md_path, build_nav_tree    *)
(***************************************************************************)
\* str.title() of the names of the model
title_case(word) ==
    CASE word = "a" -> "A"
      [] word = "b" -> "B"
      [] word = "c" -> "C"
      [] word = "title" -> "Title"
      [] word = "index" -> "Index"
      [] OTHER -> word

\* tex_path.stem
stem(path) == LET parts == SplitSlash(path) IN parts[Len(parts)]

\* extract_heading(tex_path)[0]: the first heading, or the file name
extract_heading_title(fs, inp) ==
    IF inp \in DOMAIN fs /\ fs[inp].heading # <<>>
    THEN fs[inp].heading
    ELSE [i \in 1..Len(stem(inp)) |-> title_case(stem(inp)[i])]

\* input_path_to_md_path(input_rel)
input_path_to_md_path(input_rel) ==
    (IF StartsWith(input_rel, <<"src", "/">>) THEN DropFirst(input_rel, 2)
     ELSE input_rel) \o <<".md">>

\* s.replace("src/", "")
RECURSIVE remove_src(_)
remove_src(s) ==
    IF s = <<>> THEN <<>>
    ELSE IF StartsWith(s, <<"src", "/">>) THEN remove_src(DropFirst(s, 2))
    ELSE <<s[1]>> \o remove_src(Tail(s))

\* inp == "src/title" or inp.endswith("/title")
is_title(inp) == inp = <<"src", "/", "title">> \/ EndsWith(inp, <<"/", "title">>)

\* models.NavItem
NavItem(title, path, children) ==
    [title |-> title, path |-> path, children |-> children]

\* one iteration of the loop of build_nav_tree; current_chapter is the
\* position in nav_items of the item it refers to (0 for None)
nav_step(st, inp, fs, doc_set_slug) ==
    LET item == NavItem(extract_heading_title(fs, inp),
                        doc_set_slug \o <<"/">> \o input_path_to_md_path(inp), <<>>)
        parts == SplitSlash(remove_src(inp))
        n == Len(st.nav_items)
        k == st.current_chapter
    IN  IF is_title(inp) THEN st
        ELSE IF Len(parts) = 1
        THEN [nav_items |-> Append(st.nav_items, item), current_chapter |-> n + 1]
        ELSE IF k # 0
        THEN [st EXCEPT !.nav_items[k].children = Append(@, item)]
        ELSE [st EXCEPT !.nav_items = Append(@, item)]

RECURSIVE nav_loop(_, _, _, _)
nav_loop(st, inputs, fs, doc_set_slug) ==
    IF inputs = <<>> THEN st
    ELSE nav_loop(nav_step(st, Head(inputs), fs, doc_set_slug),
                  Tail(inputs), fs, doc_set_slug)

\* build_nav_tree(inputs, doc_set_dir, doc_set_slug)
build_nav_tree(inputs, fs, doc_set_slug) ==
    nav_loop([nav_items |-> <<>>, current_chapter |-> 0],
             inputs, fs, doc_set_slug).nav_items


(***************************************************************************)
(* convert.discover_doc_sets                                               *)
(***************************************************************************)
\* config.EXCLUDED_DIRS
EXCLUDED_DIRS ==
    {<<"cmake">>, <<"tools">>, <<"test">>, <<"man">>, <<".", "gitignore">>}

\* config.DOC_SET_INFO[name][1] for the names it holds, else the name itself
doc_set_slug_of(name) ==
    CASE name = <<"input-output-reference">> -> <<"io-reference">>
      [] name = <<"engineering-reference">> -> <<"engineering-reference">>
      [] name = <<"getting-started">> -> <<"getting-started">>
      [] OTHER -> name

\* the entry names of the model in the order sorted() puts them
SortedNames ==
    <<(<<"cmake">>), (<<"engineering-reference">>), (<<"input-output-reference">>)>>

\* mutant: the entries are taken in the order iterdir() yields them
sorted_entries_unsorted(entries) == entries

\* sorted(doc_dir.iterdir())
sorted_entries(entries) ==
    SelectSeq(SortedNames, LAMBDA n : \E i \in 1..Len(entries) : entries[i] = n)

\* models.DocSet
DocSet(name) == [dir_name |-> name, slug |-> doc_set_slug_of(name)]

\* discover_doc_sets(source_dir)
discover_doc_sets(dir, entries) ==
    LET kept == SelectSeq(sorted_entries(entries),
                    LAMBDA n : /\ dir[n].is_dir
                               /\ n \notin EXCLUDED_DIRS
                               /\ ~StartsWith(n, <<".">>)
                               /\ MainTex \in DOMAIN dir[n].fs)
    IN  [i \in 1..Len(kept) |-> DocSet(kept[i])]

(***************************************************************************)
(* convert.build_label_index                                               *)
(***************************************************************************)
\* models.LabelRef(label=label, output_path=md_path)
LabelRef(label, md_path) ==
    [label |-> label, output_path |-> md_path, heading_anchor |-> <<>>,
     label_type |-> "", equation_latex |-> <<>>, equation_number |-> 0,
     figure_number |-> 0]

\* label_index[label] = ref
SetItem(index, label, ref) ==
    [l \in DOMAIN index \cup {label} |-> IF l = label THEN ref ELSE index[l]]

\* mutant: a label that is already indexed keeps its first location
index_labels_first_wins(index, labels, md_path) ==
    LET new == {labels[i] : i \in 1..Len(labels)} \ DOMAIN index
    IN  [l \in DOMAIN index \cup new |->
            IF l \in DOMAIN index THEN index[l] ELSE LabelRef(l, md_path)]

\* the loop over re.finditer(r"\\label\{([^}]+)\}", text)
RECURSIVE index_labels(_, _, _)
index_labels(index, labels, md_path) ==
    IF labels = <<>> THEN index
    ELSE index_labels(SetItem(index, Head(labels), LabelRef(Head(labels), md_path)),
                      Tail(labels), md_path)

\* md_path = f"{ds.slug}/{md_rel}.md"
index_md_path(ds, inp) ==
    LET md_rel == IF StartsWith(inp, <<"src", "/">>) THEN DropFirst(inp, 2) ELSE inp
    IN  ds.slug \o <<"/">> \o md_rel \o <<".md">>

\* the loop over the inputs of one doc set
RECURSIVE index_inputs(_, _, _, _)
index_inputs(index, inputs, ds, fs) ==
    IF inputs = <<>> THEN index
    ELSE LET inp == Head(inputs)
         IN  IF is_title(inp) \/ inp \notin DOMAIN fs
             THEN index_inputs(index, Tail(inputs), ds, fs)
             ELSE index_inputs(
                      index_labels(index, fs[inp].labels, index_md_path(ds, inp)),
                      Tail(inputs), ds, fs)

\* the loop over the doc sets
RECURSIVE index_doc_sets(_, _, _)
index_doc_sets(index, dsets, dir) ==
    IF dsets = <<>> THEN index
    ELSE LET ds == Head(dsets)
             fs == dir[ds.dir_name].fs
         IN  index_doc_sets(
                 index_inputs(index, parse_input_chain(fs, MainTex), ds, fs),
                 Tail(dsets), dir)

\* build_label_index(source_dir, doc_sets)
build_label_index(dir, dsets) == index_doc_sets(<<>>, dsets, dir)

(***************************************************************************)
(* convert.convert_doc_set                                                 *)
(***************************************************************************)
\* _build_parent_children_map(inputs): parent -> the inputs in its folder
build_parent_children_map(inputs) ==
    LET parts(inp) == SplitSlash(remove_src(inp))
        parent(inp) == <<"src", "/">> \o parts(inp)[1]
        nested == SelectSeq(inputs, LAMBDA inp : Len(parts(inp)) >= 2)
    IN  [p \in {parent(nested[i]) : i \in 1..Len(nested)} |->
            SelectSeq(nested, LAMBDA inp : parent(inp) = p)]

\* _output_path_for_input(inp, doc_set_slug, output_dir, is_parent): the path
\* below <output_dir>/docs, and rel_depth
output_path_for_input(inp, doc_set_slug, is_parent) ==
    LET md_rel == IF StartsWith(inp, <<"src", "/">>) THEN DropFirst(inp, 2) ELSE inp
        slashes == Cardinality({i \in 1..Len(md_rel) : md_rel[i] = "/"})
    IN  IF is_parent
        THEN [path |-> doc_set_slug \o <<"/">> \o md_rel \o <<"/", "index", ".md">>,
              rel_depth |-> slashes + 1]
        ELSE [path |-> doc_set_slug \o <<"/">> \o md_rel \o <<".md">>,
              rel_depth |-> slashes]

\* the links _append_child_toc appends to a parent page
child_toc(children) ==
    LET listed == SelectSeq(children, LAMBDA c : ~EndsWith(c, <<"/", "title">>))
        child_rel(c) == IF StartsWith(c, <<"src", "/">>) THEN DropFirst(c, 2) ELSE c
        filename(c) ==
            IF \E i \in 1..Len(child_rel(c)) : child_rel(c)[i] = "/"
            THEN JoinSlash(Tail(SplitSlash(child_rel(c))))
            ELSE child_rel(c)
    IN  [i \in 1..Len(listed) |-> filename(listed[i]) \o <<".md">>]

\* models.ConversionResult
ConversionResult(source, output, success, error) ==
    [source |-> source, output |-> output, success |-> success, error |-> error]

\* DocSetResult.success_count and DocSetResult.failure_count
success_count(file_results) ==
    Cardinality({k \in 1..Len(file_results) : file_results[k].success})

failure_count(file_results) ==
    Cardinality({k \in 1..Len(file_results) : ~file_results[k].success})

\* the arguments with which convert_tex_file calls postprocess: the slug, the
\* label index and rel_depth; current_md_path is not passed and so takes its
\* default, the empty string
postprocess_call(doc_set_slug, index, rel_depth) ==
    [doc_set_slug |-> doc_set_slug, label_index |-> index,
     rel_depth |-> rel_depth, current_md_path |-> <<>>]

\* convert_tex_file(tex_path, output_path, ...): the ConversionResult, given
\* how the conversion of the file ends
convert_tex_file(source, output_path, outcome) ==
    CASE outcome = "converted" -> ConversionResult(source, output_path, TRUE, "")
      [] outcome = "pandoc error" ->
             ConversionResult(source, output_path, FALSE, "Pandoc failed: ")
      [] outcome = "timeout" ->
             ConversionResult(source, output_path, FALSE, "Pandoc timed out after 60s")
      [] outcome = "exception" ->
             ConversionResult(source, output_path, FALSE, "str(e)")

\* mutant: a unit whose conversion fails leaves no ConversionResult
convert_input_unrecorded(st, inp, ds, fs, parent_children, failed, index) ==
    LET out == output_path_for_input(inp, ds.slug, inp \in DOMAIN parent_children)
        page == [doc_set |-> ds.dir_name, unit |-> inp,
                 toc |-> IF inp \in DOMAIN parent_children
                         THEN child_toc(parent_children[inp]) ELSE <<>>,
                 postprocess |-> postprocess_call(ds.slug, index, out.rel_depth)]
    IN  IF is_title(inp) \/ inp \in DOMAIN failed THEN st
        ELSE IF inp \notin DOMAIN fs
        THEN [st EXCEPT !.file_results = Append(@,
                 ConversionResult(inp, <<>>, FALSE, "Source file not found"))]
        ELSE [file_results |-> Append(st.file_results,
                                   convert_tex_file(inp, out.path, "converted")),
              docs |-> SetItem(st.docs, out.path, page)]

\* one iteration of the loop of convert_doc_set; st holds the file results
\* and the files below docs/, failed says how the conversion of a unit ends
\* when it does not succeed
convert_input(st, inp, ds, fs, parent_children, failed, index) ==
    LET out == output_path_for_input(inp, ds.slug, inp \in DOMAIN parent_children)
        page == [doc_set |-> ds.dir_name, unit |-> inp,
                 toc |-> IF inp \in DOMAIN parent_children
                         THEN child_toc(parent_children[inp]) ELSE <<>>,
                 postprocess |-> postprocess_call(ds.slug, index, out.rel_depth)]
        file_result == convert_tex_file(inp, out.path,
                           IF inp \in DOMAIN failed THEN failed[inp] ELSE "converted")
    IN  IF is_title(inp) THEN st
        ELSE IF inp \notin DOMAIN fs
        THEN [st EXCEPT !.file_results = Append(@,
                 ConversionResult(inp, <<>>, FALSE, "Source file not found"))]
        ELSE IF ~file_result.success
        THEN [st EXCEPT !.file_results = Append(@, file_result)]
        ELSE [file_results |-> Append(st.file_results, file_result),
              docs |-> SetItem(st.docs, out.path, page)]

\* mutant: the loop ends at the first unit whose source file is missing
RECURSIVE convert_inputs_stop_at_missing(_, _, _, _, _, _, _)
convert_inputs_stop_at_missing(st, inputs, ds, fs, parent_children, failed, index) ==
    IF inputs = <<>> THEN st
    ELSE IF ~is_title(Head(inputs)) /\ Head(inputs) \notin DOMAIN fs
    THEN convert_input(st, Head(inputs), ds, fs, parent_children, failed, index)
    ELSE convert_inputs_stop_at_missing(
             convert_input(st, Head(inputs), ds, fs, parent_children, failed, index),
             Tail(inputs), ds, fs, parent_children, failed, index)

RECURSIVE convert_inputs(_, _, _, _, _, _, _)
convert_inputs(st, inputs, ds, fs, parent_children, failed, index) ==
    IF inputs = <<>> THEN st
    ELSE convert_inputs(
             convert_input(st, Head(inputs), ds, fs, parent_children, failed, index),
             Tail(inputs), ds, fs, parent_children, failed, index)

\* convert_doc_set(doc_set, output_dir, label_index): the DocSetResult and
\* the files below docs/ afterwards (the section index page included)
convert_doc_set(ds, fs, index, written, failed) ==
    LET inputs == parse_input_chain(fs, MainTex)
        parent_children == build_parent_children_map(inputs)
        st == convert_inputs([file_results |-> <<>>, docs |-> written],
                             inputs, ds, fs, parent_children, failed, index)
    IN  [result |-> [doc_set |-> ds.dir_name, file_results |-> st.file_results],
         docs |-> SetItem(st.docs, ds.slug \o <<"/", "index", ".md">>,
                          [doc_set |-> ds.dir_name, unit |-> <<>>, toc |-> <<>>,
                           postprocess |-> <<>>])]

(***************************************************************************)
(* nav_generator.extract_heading on the text of a file.  The text is a     *)
(* string whose atoms are the backslash, the braces, the star, the space,  *)
(* the line break and words (maximal runs of letters).                     *)
(***************************************************************************)
\* \s
IsSpace(a) == a \in {" ", "\n"}

\* [a-zA-Z]+
IsWord(a) == a \notin {"\\", "{", "}", "*", " ", "\n"}

\* position of the first atom c of s at or after from, 0 when there is none
find(s, c, from) ==
    LET hits == {i \in from..Len(s) : s[i] = c}
    IN  IF hits = {} THEN 0 ELSE CHOOSE i \in hits : \A j \in hits : i <= j

\* the match of r"\\<cmd>\*?\{([^}]+)\}" that starts at position i, if any
heading_match_at(text, i, cmd) ==
    LET open == IF i + 2 <= Len(text) /\ text[i + 2] = "*" THEN i + 3 ELSE i + 2
        close == find(text, "}", open + 1)
    IN  IF /\ i + 1 <= Len(text)
           /\ text[i] = "\\"
           /\ text[i + 1] = cmd
           /\ open <= Len(text)
           /\ text[open] = "{"
           /\ close > open + 1
        THEN [found |-> TRUE, group |-> SubSeq(text, open + 1, close - 1)]
        ELSE [found |-> FALSE, group |-> <<>>]

\* re.search(pattern, text, re.DOTALL): the leftmost match
heading_search(text, cmd) ==
    LET hits == {i \in 1..Len(text) : heading_match_at(text, i, cmd).found}
    IN  IF hits = {} THEN [found |-> FALSE, group |-> <<>>]
        ELSE heading_match_at(text, CHOOSE i \in hits : \A j \in hits : i <= j, cmd)

\* str.strip()
RECURSIVE strip(_)
strip(s) ==
    IF s = <<>> THEN s
    ELSE IF IsSpace(s[1]) THEN strip(Tail(s))
    ELSE IF IsSpace(s[Len(s)]) THEN strip(SubSeq(s, 1, Len(s) - 1))
    ELSE s

\* the number of word atoms of s from position from on
RECURSIVE word_run(_, _)
word_run(s, from) ==
    IF from <= Len(s) /\ IsWord(s[from]) THEN 1 + word_run(s, from + 1) ELSE 0

\* re.sub(r"\\[a-zA-Z]+\{([^}]*)\}", r"\1", title)
RECURSIVE sub_directives(_)
sub_directives(s) ==
    IF s = <<>> THEN s
    ELSE LET w == word_run(s, 2)
             close == find(s, "}", w + 3)
         IN  IF /\ s[1] = "\\"
                /\ w >= 1
                /\ w + 2 <= Len(s)
                /\ s[w + 2] = "{"
                /\ close > 0
             THEN SubSeq(s, w + 3, close - 1)
                      \o sub_directives(SubSeq(s, close + 1, Len(s)))
             ELSE <<s[1]>> \o sub_directives(Tail(s))

\* re.sub(r"[\\{}]", "", title)
remove_markup(s) == SelectSeq(s, LAMBDA a : a \notin {"\\", "{", "}"})

\* re.sub(r"\s+", " ", title)
RECURSIVE collapse_spaces(_)
collapse_spaces(s) ==
    IF s = <<>> THEN s
    ELSE IF IsSpace(s[1])
    THEN IF Len(s) >= 2 /\ IsSpace(s[2]) THEN collapse_spaces(Tail(s))
         ELSE <<" ">> \o collapse_spaces(Tail(s))
    ELSE <<s[1]>> \o collapse_spaces(Tail(s))

\* the cleaning of a matched title
clean_title(group) ==
    strip(collapse_spaces(remove_markup(sub_directives(strip(group)))))

\* heading_patterns, in the order of the list
heading_patterns ==
    <<[cmd |-> "chapter", level |-> 0], [cmd |-> "section", level |-> 1],
      [cmd |-> "subsection", level |-> 2], [cmd |-> "subsubsection", level |-> 3]>>

\* tex_path.stem.replace("-", " ").title()
filename_title(path) == [i \in 1..Len(stem(path)) |-> title_case(stem(path)[i])]

\* the loop over heading_patterns, from pattern k on
RECURSIVE heading_loop(_, _, _)
heading_loop(text, path, k) ==
    IF k > Len(heading_patterns)
    THEN [title |-> filename_title(path), level |-> 1]
    ELSE LET m == heading_search(text, heading_patterns[k].cmd)
         IN  IF m.found
             THEN [title |-> clean_title(m.group), level |-> heading_patterns[k].level]
             ELSE heading_loop(text, path, k + 1)

\* extract_heading(tex_path)
extract_heading(exists, text, path) ==
    IF ~exists THEN [title |-> filename_title(path), level |-> 1]
    ELSE heading_loop(text, path, 1)

(***************************************************************************)
(* markdown_postprocessor: the two re.sub calls on the text of a page.     *)
(* The text is a string whose atoms are the brackets, the parentheses,     *)
(* "#", ":", the word "crossref", other words, and the two literal parts   *)
(* of the marker the Lua filter writes for an equation reference.          *)
(***************************************************************************)
\* '<span class="eqref-placeholder" data-label="' and '"></span>'
SpanOpen == "<span class=\"eqref-placeholder\" data-label=\""

SpanClose == "\"></span>"

NoMatch == [found |-> FALSE, link_text |-> <<>>, label |-> <<>>, end |-> 0]

\* the match of r"\[([^\]]*)\]\(#crossref:([^)]+)\)" that starts at position
\* i, if any: the link text runs to the first "]", the label to the first ")"
crossref_match_at(text, i) ==
    LET close == find(text, "]", i + 1)
        paren == IF close = 0 THEN 0 ELSE find(text, ")", close + 5)
    IN  IF /\ text[i] = "["
           /\ close # 0
           /\ close + 4 <= Len(text)
           /\ SubSeq(text, close + 1, close + 4) = <<"(", "#", "crossref", ":">>
           /\ paren > close + 5
        THEN [found |-> TRUE, link_text |-> SubSeq(text, i + 1, close - 1),
              label |-> SubSeq(text, close + 5, paren - 1), end |-> paren]
        ELSE NoMatch

\* the match of r'<span class="eqref-placeholder" data-label="([^"]+)"></span>'
\* that starts at position i, if any
eqref_match_at(text, i) ==
    LET quotes == {j \in (i + 1)..Len(text) : text[j] \in {SpanOpen, SpanClose}}
        close == IF quotes = {} THEN 0
                 ELSE CHOOSE j \in quotes : \A k \in quotes : j <= k
    IN  IF text[i] = SpanOpen /\ close > i + 1 /\ text[close] = SpanClose
        THEN [found |-> TRUE, link_text |-> <<>>,
              label |-> SubSeq(text, i + 1, close - 1), end |-> close]
        ELSE NoMatch

\* re.sub(pattern, resolve, text) of resolve_equation_references, from
\* position i on: matches are replaced from left to right and what a
\* replacement returns is not scanned again
RECURSIVE sub_equation_references(_, _, _, _)
sub_equation_references(text, i, index, current) ==
    IF i > Len(text) THEN <<>>
    ELSE LET m == eqref_match_at(text, i)
         IN  IF m.found
             THEN resolve_eqref(m.label, index, current)
                      \o sub_equation_references(text, m.end + 1, index, current)
             ELSE <<text[i]>> \o sub_equation_references(text, i + 1, index, current)

\* re.sub(pattern, resolve, text) of resolve_cross_references
RECURSIVE sub_cross_references(_, _, _, _)
sub_cross_references(text, i, index, current) ==
    IF i > Len(text) THEN <<>>
    ELSE LET m == crossref_match_at(text, i)
         IN  IF m.found
             THEN resolve_crossref(m.link_text, m.label, index, current)
                      \o sub_cross_references(text, m.end + 1, index, current)
             ELSE <<text[i]>> \o sub_cross_references(text, i + 1, index, current)

\* the two resolver calls of postprocess, in its order
resolve_references(text, index, current) ==
    sub_cross_references(sub_equation_references(text, 1, index, current),
                         1, index, current)

(***************************************************************************)
(* convert_all: process_version in a worker process, main in the parent.   *)
(* A version tag is a string such as "v25.2.0" with the atoms "v", the     *)
(* numbers and the dots; a directory is a path string.                     *)
(***************************************************************************)
\* convert_all.BUILD_DIR, DEPLOY_DIR and CLONE_DIR
BUILD_DIR == <<"build">>

DEPLOY_DIR == <<"dist">>

CLONE_DIR == BUILD_DIR \o <<"/", "sources">>

\* version.lstrip("v")
RECURSIVE lstrip_v(_)
lstrip_v(version) ==
    IF version # <<>> /\ Head(version) = "v" THEN lstrip_v(Tail(version))
    ELSE version

\* s.split(".")
RECURSIVE SplitDot(_)
SplitDot(s) ==
    IF \A i \in 1..Len(s) : s[i] # "."
    THEN <<s>>
    ELSE LET k == CHOOSE i \in 1..Len(s) :
                      /\ s[i] = "."
                      /\ \A j \in 1..(i - 1) : s[j] # "."
         IN  <<SubSeq(s, 1, k - 1)>> \o SplitDot(DropFirst(s, k))

\* config.version_to_short(version): "v25.2.0" -> "v25.2"
version_to_short(version) ==
    LET parts == SplitDot(lstrip_v(version))
    IN  <<"v">> \o parts[1] \o <<".">> \o parts[2]

\* models.VersionResult (doc_set_results left at its default, the empty list)
VersionResult(version, build_success, build_error) ==
    [version |-> version, doc_set_results |-> <<>>,
     build_success |-> build_success, build_error |-> build_error]

\* output_dir = BUILD_DIR / short in process_version
output_dir_of(version) == BUILD_DIR \o <<"/">> \o version_to_short(version)

\* target = clone_dir / version in clone_version
clone_target(version, clone_dir) == clone_dir \o <<"/">> \o version

\* the exceptions a worker raises: subprocess.run(..., check=True) in
\* clone_version, and the call convert_version(..., max_workers=file_workers)
\* of a function that has no parameter max_workers
CalledProcessError ==
    [type |-> "CalledProcessError",
     message |-> "Command returned non-zero exit status"]

TypeError ==
    [type |-> "TypeError",
     message |-> "convert_version() got an unexpected keyword argument 'max_workers'"]

\* the states of a future
Pending == [state |-> "pending"]

Returned(result) == [state |-> "returned", result |-> result]

Raised(exception) == [state |-> "raised", exception |-> exception]

\* mutant: a future that raised is recorded as a successful build
collect_raised_as_success(res, version, future) ==
    IF future.state = "returned" THEN SetItem(res, version, future.result)
    ELSE SetItem(res, version, VersionResult(version, TRUE, ""))

\* the body of the loop over as_completed in main: results[version] is the
\* returned VersionResult, or a failed one holding str(e)
collect(res, version, future) ==
    IF future.state = "returned" THEN SetItem(res, version, future.result)
    ELSE SetItem(res, version,
                 VersionResult(version, FALSE, future.exception.message))

\* successful_versions in main
successful_versions(res) ==
    [v \in {w \in DOMAIN res : res[w].build_success} |-> output_dir_of(v)]

\* merge_version_outputs(version_build_dirs, deploy_dir): the directory
\* copied to <deploy_dir>/<short> for each version, and versions.json
merge_version_outputs(version_build_dirs, deploy) ==
    [dirs |-> [d \in DOMAIN deploy.dirs
                     \cup {version_to_short(v) : v \in DOMAIN version_build_dirs} |->
                  IF \E v \in DOMAIN version_build_dirs : version_to_short(v) = d
                  THEN LET v == CHOOSE v \in DOMAIN version_build_dirs :
                                    version_to_short(v) = d
                       IN  version_build_dirs[v] \o <<"/", "site">>
                  ELSE deploy.dirs[d]],
     versions |-> DOMAIN version_build_dirs]

(***************************************************************************)
(* Inputs                                                                  *)
(***************************************************************************)
\* sequences over S of length lo..hi
SeqsOf(S, lo, hi) == UNION {[1..n -> S] : n \in lo..hi}

\* names of directories and files of output pages
PageNames == {<<"a">>, <<"b">>, <<"index">>}

\* an output page: the directories it lies in (the first is the doc-set slug)
\* and the stem of its file name
Pages == [dirs : SeqsOf(PageNames, 1, MaxDirs), stem : PageNames]

\* the page's path as a string: "<dir>/.../<stem>.md"
MdPath(page) == JoinSlash(Append(page.dirs, page.stem)) \o <<".md">>

\* atoms a label is made of: a word, the colon, and a ready-made escape
LabelAtoms == {"q", ":", "%", "3", "A"}

Labels == SeqsOf(LabelAtoms, 1, MaxLabelLen)

\* pages of the release the resolver is run on
ResPages == {
    [dirs |-> <<(<<"a">>)>>, stem |-> <<"b">>],
    [dirs |-> <<(<<"a">>)>>, stem |-> <<"c">>],
    [dirs |-> <<(<<"a">>), (<<"b">>)>>, stem |-> <<"index">>],
    [dirs |-> <<(<<"d">>), (<<"e">>)>>, stem |-> <<"f">>] }

\* the page an output path belongs to
PageOf(md_path) == CHOOSE p \in ResPages : MdPath(p) = md_path

\* labels referenced by the placeholders
ResLabels == {<<"eq", ":", "energy-balance">>, <<"sec", ":", "missing">>}

\* raw equation sources stored for tooltips
ResLatex == {<<>>, <<"x", "<", "y">>, <<"\"", "&", "'", ">">>}

\* models.LabelRef
LabelRefs(label) ==
    [label : {label},
     output_path : {MdPath(p) : p \in ResPages},
     heading_anchor : {<<>>, <<"overview">>},
     label_type : {"", "equation", "figure"},
     equation_latex : ResLatex,
     equation_number : 0..MaxOrdinal,
     figure_number : {0}]
    \cup
    [label : {label},
     output_path : {MdPath(p) : p \in ResPages},
     heading_anchor : {<<>>, <<"overview">>},
     label_type : {"figure"},
     equation_latex : {<<>>},
     equation_number : {0},
     figure_number : 1..MaxOrdinal]

\* label indexes: empty, or holding one label
ResIndexes ==
    {<<>>} \cup UNION {[{l} -> LabelRefs(l)] : l \in ResLabels}

\* the placeholders of a converted text
Placeholders ==
    {CrossrefItem(<<"see">>, l) : l \in ResLabels}
        \cup {EqrefItem(l) : l \in ResLabels}

\* the units of the documentation set generate_nav is run on
UnitA == <<"src", "/", "a">>
UnitB == <<"src", "/", "b">>
UnitAB == <<"src", "/", "a", "/", "b">>
UnitAC == <<"src", "/", "a", "/", "c">>
UnitTitle == <<"src", "/", "title">>
\* a unit in a folder that is itself named src
UnitSrcB == <<"src", "/", "src", "/", "b">>

NavUnits == {UnitA, UnitB, UnitAB, UnitAC, UnitSrcB, UnitTitle}

\* the units a file may include (no file includes itself, directly or not)
MayInclude(unit) ==
    CASE unit = UnitA -> {UnitAB, UnitB}
      [] unit = UnitAB -> {UnitAC}
      [] OTHER -> {}

\* what a unit's file may be: missing (no entry) or a file with includes
UnitFiles(unit) ==
    {<<>>} \cup
    {[x \in {unit} |-> TexFile(incl, <<>>)] :
        incl \in SeqsOf(MayInclude(unit), 0, MaxFileIncludes)}

\* the slug of that documentation set
NavSlug == <<"getting-started">>

\* the doc-set directories: a main file with 1..MaxIncludes includes, and for
\* each unit either no file or a file; the title page and src/b always exist
NavDirs ==
    {[x \in {MainTex} |-> TexFile(main, <<>>)]
         @@ [x \in {UnitTitle} |-> TexFile(<<>>, <<>>)]
         @@ [x \in {UnitSrcB} |-> TexFile(<<>>, <<>>)]
         @@ fa @@ fb @@ fab @@ fac :
        main \in SeqsOf(NavUnits, 1, MaxIncludes),
        fa \in UnitFiles(UnitA), fb \in UnitFiles(UnitB),
        fab \in UnitFiles(UnitAB), fac \in UnitFiles(UnitAC)}

\* labels declared in the .tex files of a release
FigLayout == <<"fig", ":", "layout">>
SecIntro == <<"sec", ":", "intro">>
EqEnergy == <<"eq", ":", "energy">>
IndexLabels == {FigLayout, SecIntro, EqEnergy}

\* the block of the .tex text a label is declared in: the corpora declare
\* eq:energy in a display-math block, fig:layout in a figure block and
\* sec:intro in running text
LabelEnv(label) ==
    CASE label = EqEnergy -> "equation"
      [] label = FigLayout -> "figure"
      [] OTHER -> ""

\* the \label declarations of one file
LabelLists == SeqsOf(IndexLabels, 0, MaxLabelsPerUnit)

\* the entries of doc/
EngRef == <<"engineering-reference">>
IORef == <<"input-output-reference">>
CMake == <<"cmake">>

\* a file of a doc set: missing, or one with some of the includes and labels
FilesOf(unit, include_lists, label_lists) ==
    {<<>>} \cup
    {[x \in {unit} |-> TexFile(incl, labels)] :
        incl \in include_lists, labels \in label_lists}

\* engineering-reference: a chapter a that may include its section a/b (with
\* or without fig:layout), a title page with a label, and a main file with
\* 1..MaxIncludes includes
EngRefDirs ==
    {[x \in {MainTex} |-> TexFile(main, <<>>)]
         @@ [x \in {UnitTitle} |-> TexFile(<<>>, <<FigLayout>>)]
         @@ fa @@ fab :
        main \in SeqsOf({UnitA, UnitAB, UnitTitle}, 1, MaxIncludes),
        fa \in FilesOf(UnitA, {<<>>, <<UnitAB>>}, LabelLists),
        fab \in FilesOf(UnitAB, {<<>>}, {<<>>, <<FigLayout>>})}

\* input-output-reference: one chapter a, with or without fig:layout
IORefDirs ==
    {[x \in {MainTex} |-> TexFile(<<UnitA>>, <<>>)]
         @@ [x \in {UnitA} |-> TexFile(<<>>, labels)] :
        labels \in {<<>>, <<FigLayout>>}}

\* cmake: not a doc set, though it holds a main file and a label
CMakeDir ==
    [x \in {MainTex} |-> TexFile(<<UnitA>>, <<>>)]
        @@ [x \in {UnitA} |-> TexFile(<<>>, <<SecIntro>>)]

\* the doc/ directories of the releases
DocDirs ==
    {[n \in {EngRef, IORef, CMake} |->
         [is_dir |-> TRUE,
          fs |-> IF n = EngRef THEN er ELSE IF n = IORef THEN io ELSE CMakeDir]] :
        er \in EngRefDirs, io \in IORefDirs}

\* doc/ directories without units: engineering-reference and
\* input-output-reference are plain files, or directories without a main
\* .tex file, or documentation sets whose main file has no \input directive
\* (src/a.tex lies in the directory but nothing includes it)
BareDocDirs ==
    {[n \in {EngRef, IORef, CMake} |->
         IF n = CMake THEN [is_dir |-> TRUE, fs |-> CMakeDir] ELSE entry] :
        entry \in {[is_dir |-> FALSE, fs |-> <<>>],
                   [is_dir |-> TRUE, fs |-> [x \in {UnitA} |-> TexFile(<<>>, <<>>)]],
                   [is_dir |-> TRUE,
                    fs |-> [x \in {MainTex} |-> TexFile(<<>>, <<>>)]
                               @@ [x \in {UnitA} |-> TexFile(<<>>, <<>>)]]}}

\* a unit named index in the folder of chapter a
UnitAIndex == <<"src", "/", "a", "/", "index">>

\* doc/ directories in which both documentation sets hold the chapter a and
\* the unit a/index, included one after the other by the main file
IndexUnitDocDirs ==
    {[n \in {EngRef, IORef, CMake} |->
         IF n = CMake THEN [is_dir |-> TRUE, fs |-> CMakeDir]
         ELSE [is_dir |-> TRUE,
               fs |-> [x \in {MainTex} |-> TexFile(main, <<>>)]
                          @@ [x \in {UnitA} |-> TexFile(<<>>, <<>>)]
                          @@ [x \in {UnitAIndex} |-> TexFile(<<>>, <<>>)]]] :
        main \in {<<UnitA, UnitAIndex>>, <<UnitAIndex, UnitA>>}}

\* the orders in which a directory may list its entries
Listings(names) ==
    {f \in [1..Cardinality(names) -> names] :
        \A i, j \in DOMAIN f : i # j => f[i] # f[j]}

\* the units whose conversion by pandoc may fail
PandocMayFail == {UnitAB}

\* how convert_tex_file ends when it does not succeed: pandoc returns an
\* error and no output, pandoc times out, or a step raises an exception
Failures == {"pandoc error", "timeout", "exception"}

\* the heading commands a .tex file may use
HeadingCmds == {"chapter", "section", "subsection", "subsubsection"}

\* arguments of the headings: a plain title, one with a run of spaces and a
\* line break, one with a "\\" line break, and one with the inline
\* formatting directive \textbf{Big}
PlainArg == <<"A">>
SpacedArg == <<"A", " ", "\n", " ", "B">>
BrokenArg == <<"A", " ", "\\", "\\", " ", "B">>
DirectiveArg == <<"The", " ", "\\", "textbf", "{", "Big", "}", " ", "Idea">>
HeadingArgs == {PlainArg, SpacedArg, BrokenArg, DirectiveArg}

\* a heading of a file: \<cmd>{<arg>} or \<cmd>*{<arg>}
Headings == [cmd : HeadingCmds, star : BOOLEAN, arg : HeadingArgs]

\* the text of a heading, followed by a line break
HeadingLine(h) ==
    <<"\\", h.cmd>> \o (IF h.star THEN <<"*">> ELSE <<>>)
        \o <<"{">> \o h.arg \o <<"}", "\n">>

\* the text of a file with the headings hs, in that order
HeadingText(hs) == Concat([i \in 1..Len(hs) |-> HeadingLine(hs[i])])

\* what a file may hold: 0..MaxHeadings headings
HeadingLists == SeqsOf(Headings, 0, MaxHeadings)

\* the files extract_heading is called on
HeadingPaths == {UnitA, UnitAB}

\* the version tags that can be requested: two patch releases of 25.2 and
\* one release of 25.1
V2510 == <<"v", "25", ".", "1", ".", "0">>
V2520 == <<"v", "25", ".", "2", ".", "0">>
V2521 == <<"v", "25", ".", "2", ".", "1">>
VersionTags == {V2510, V2520, V2521}

\* --versions: a list of distinct tags
VersionLists ==
    {vs \in SeqsOf(VersionTags, 1, MaxVersions) :
        \A i, j \in 1..Len(vs) : i # j => vs[i] # vs[j]}

\* what build/sources/<tag> can hold before the run
CloneStates == {"absent", "partial", "complete"}

\* the labels the placeholders of a page text name; the last one begins
\* with the word the placeholder scheme uses
SubLabels ==
    {<<"sec", ":", "intro">>, <<"eq", ":", "energy">>,
     <<"crossref", ":", "sec", ":", "intro">>}

\* link texts: a word, and a text that holds brackets of its own
SubLinkTexts == {<<"see">>, <<"Table", " ", "[", "1", "]">>}

\* the pieces a page text is made of: other text, a cross-reference link
\* and an equation-reference marker, as the Lua filter writes them
PlainSegment == [kind |-> "text", s |-> <<"As", " ", "in", " ">>]

CrossrefSegments ==
    {[kind |-> "crossref",
      s |-> <<"[">> \o t \o <<"]", "(", "#", "crossref", ":">> \o l \o <<")">>] :
        t \in SubLinkTexts, l \in SubLabels}

EqrefSegments ==
    {[kind |-> "eqref", s |-> <<SpanOpen>> \o l \o <<SpanClose>>] : l \in SubLabels}

Segments == {PlainSegment} \cup CrossrefSegments \cup EqrefSegments

SegmentLists == SeqsOf(Segments, 1, MaxSegments)

\* the pages of the release the text belongs to
SubPages == {<<"s", "/", "a", ".md">>, <<"s", "/", "b", "/", "index", ".md">>}

\* the label indexes: sec:intro as build_label_index stores it, eq:energy
\* as an equation, each present or not
SubIndexes ==
    {[l \in ls |->
        IF l = <<"eq", ":", "energy">>
        THEN [LabelRef(l, <<"s", "/", "a", ".md">>) EXCEPT
                 !.label_type = "equation", !.equation_number = 1]
        ELSE LabelRef(l, <<"s", "/", "a", ".md">>)] :
        ls \in SUBSET {<<"sec", ":", "intro">>, <<"eq", ":", "energy">>}}

(***************************************************************************)
(* Specification of the two pure helpers                                   *)
(***************************************************************************)
UrlIdle ==
    /\ target_md_path = <<>>
    /\ url_current = <<>>
    /\ url_pages = <<>>
    /\ url_result = <<>>
    /\ url_pc = "idle"

AnchorIdle ==
    /\ anchor_label = <<>>
    /\ anchor_result = <<>>
    /\ anchor_pc = "idle"

UrlInit ==
    /\ \E t \in Pages, c \in Pages :
          /\ url_pages = [target |-> t, current |-> c]
          /\ target_md_path = MdPath(t)
          /\ url_current = MdPath(c)
    /\ url_result = <<>>
    /\ url_pc = "call"

RelativeUrl ==
    /\ url_pc = "call"
    /\ url_result' = relative_url(target_md_path, url_current)
    /\ url_pc' = "done"
    /\ UNCHANGED <<target_md_path, url_current, url_pages>>
    /\ UNCHANGED <<anchorVars, resVars, navVars, relVars, headVars, orchVars,
                 subVars>>

AnchorInit ==
    /\ anchor_label \in Labels
    /\ anchor_result = <<>>
    /\ anchor_pc = "call"

LabelToMjxAnchor ==
    /\ anchor_pc = "call"
    /\ anchor_result' = label_to_mjx_anchor(anchor_label)
    /\ anchor_pc' = "done"
    /\ UNCHANGED anchor_label
    /\ UNCHANGED <<urlVars, resVars, navVars, relVars, headVars, orchVars,
                 subVars>>


(***************************************************************************)
(* Specification of the reference resolver: postprocess runs               *)
(* resolve_equation_references, then resolve_cross_references.             *)
(***************************************************************************)
ResIdle ==
    /\ res_input = <<>>
    /\ res_text = <<>>
    /\ res_index = <<>>
    /\ current_md_path = <<>>
    /\ res_pc = "idle"

ResInit ==
    /\ \E ph \in Placeholders : res_input = <<TextItem(<<"As shown in ">>), ph>>
    /\ res_text = res_input
    /\ res_index \in ResIndexes
    /\ current_md_path \in {MdPath(p) : p \in ResPages}
    /\ res_pc = "eqrefs"

ResolveEquationReferences ==
    /\ res_pc = "eqrefs"
    /\ res_text' = resolve_equation_references(res_text, res_index, current_md_path)
    /\ res_pc' = "crossrefs"
    /\ UNCHANGED <<res_input, res_index, current_md_path>>
    /\ UNCHANGED <<urlVars, anchorVars, navVars, relVars, headVars, orchVars,
                 subVars>>

ResolveCrossReferences ==
    /\ res_pc = "crossrefs"
    /\ res_text' = resolve_cross_references(res_text, res_index, current_md_path)
    /\ res_pc' = "done"
    /\ UNCHANGED <<res_input, res_index, current_md_path>>
    /\ UNCHANGED <<urlVars, anchorVars, navVars, relVars, headVars, orchVars,
                 subVars>>

ResNext == ResolveEquationReferences \/ ResolveCrossReferences


(***************************************************************************)
(* Specification of generate_nav: parse_input_chain, then build_nav_tree   *)
(* unless the chain is empty.                                              *)
(***************************************************************************)
NavIdle ==
    /\ nav_fs = <<>>
    /\ nav_inputs = <<>>
    /\ nav_items = <<>>
    /\ nav_pc = "idle"

NavInit ==
    /\ nav_fs \in NavDirs
    /\ nav_inputs = <<>>
    /\ nav_items = <<>>
    /\ nav_pc = "parse"

ParseInputChain ==
    /\ nav_pc = "parse"
    /\ nav_inputs' = parse_input_chain(nav_fs, MainTex)
    /\ nav_pc' = IF nav_inputs' = <<>> THEN "done" ELSE "build"
    /\ UNCHANGED <<nav_fs, nav_items>>
    /\ UNCHANGED <<urlVars, anchorVars, resVars, relVars, headVars, orchVars,
                 subVars>>

BuildNavTree ==
    /\ nav_pc = "build"
    /\ nav_items' = build_nav_tree(nav_inputs, nav_fs, NavSlug)
    /\ nav_pc' = "done"
    /\ UNCHANGED <<nav_fs, nav_inputs>>
    /\ UNCHANGED <<urlVars, anchorVars, resVars, relVars, headVars, orchVars,
                 subVars>>

NavNext == ParseInputChain \/ BuildNavTree


(***************************************************************************)
(* Specification of convert_version: discover_doc_sets, build_label_index, *)
(* convert_doc_set for every doc set, then the index page, the site        *)
(* configuration and the site build.                                       *)
(***************************************************************************)
RelIdle ==
    /\ doc_dir = <<>>
    /\ listing = <<>>
    /\ doc_sets = <<>>
    /\ label_index = <<>>
    /\ docs = <<>>
    /\ doc_set_results = <<>>
    /\ build = <<>>
    /\ rel_pc = "idle"

RelInit ==
    /\ doc_dir \in DocDirs \cup BareDocDirs \cup IndexUnitDocDirs
    /\ listing \in Listings(DOMAIN doc_dir)
    /\ doc_sets = <<>>
    /\ label_index = <<>>
    /\ docs = <<>>
    /\ doc_set_results = <<>>
    /\ build = [build_success |-> FALSE, build_error |-> ""]
    /\ rel_pc = "discover"

\* mutant: the release is indexed and converted even when no documentation
\* set was found
DiscoverDocSets_without_abort ==
    /\ rel_pc = "discover"
    /\ doc_sets' = discover_doc_sets(doc_dir, listing)
    /\ build' = build
    /\ rel_pc' = "index"
    /\ UNCHANGED <<doc_dir, listing, label_index, docs, doc_set_results>>
    /\ UNCHANGED <<urlVars, anchorVars, resVars, navVars, headVars, orchVars,
                 subVars>>

DiscoverDocSets ==
    /\ rel_pc = "discover"
    /\ doc_sets' = discover_doc_sets(doc_dir, listing)
    /\ IF doc_sets' = <<>>
       THEN /\ build' = [build_success |-> FALSE, build_error |-> "No doc sets found"]
            /\ rel_pc' = "done"
       ELSE /\ build' = build
            /\ rel_pc' = "index"
    /\ UNCHANGED <<doc_dir, listing, label_index, docs, doc_set_results>>
    /\ UNCHANGED <<urlVars, anchorVars, resVars, navVars, headVars, orchVars,
                 subVars>>

\* mutant: the index is built from the first documentation set alone
BuildLabelIndex_first_doc_set_only ==
    /\ rel_pc = "index"
    /\ label_index' = build_label_index(doc_dir, SubSeq(doc_sets, 1, 1))
    /\ rel_pc' = "convert"
    /\ UNCHANGED <<doc_dir, listing, doc_sets, docs, doc_set_results, build>>
    /\ UNCHANGED <<urlVars, anchorVars, resVars, navVars, headVars, orchVars,
                 subVars>>

BuildLabelIndex ==
    /\ rel_pc = "index"
    /\ label_index' = build_label_index(doc_dir, doc_sets)
    /\ rel_pc' = "convert"
    /\ UNCHANGED <<doc_dir, listing, doc_sets, docs, doc_set_results, build>>
    /\ UNCHANGED <<urlVars, anchorVars, resVars, navVars, headVars, orchVars,
                 subVars>>

ConvertDocSet ==
    /\ rel_pc = "convert"
    /\ \E units \in SUBSET PandocMayFail : \E failed \in [units -> Failures] :
          LET ds == doc_sets[Len(doc_set_results) + 1]
              done == convert_doc_set(ds, doc_dir[ds.dir_name].fs, label_index, docs, failed)
          IN  /\ doc_set_results' = Append(doc_set_results, done.result)
              /\ docs' = done.docs
    /\ rel_pc' = IF Len(doc_set_results') = Len(doc_sets) THEN "finish" ELSE "convert"
    /\ UNCHANGED <<doc_dir, listing, doc_sets, label_index, build>>
    /\ UNCHANGED <<urlVars, anchorVars, resVars, navVars, headVars, orchVars,
                 subVars>>

FinishVersion ==
    /\ rel_pc = "finish"
    /\ docs' = SetItem(docs, <<"index", ".md">>,
                       [doc_set |-> <<>>, unit |-> <<>>, toc |-> <<>>,
                        postprocess |-> <<>>])
    /\ \E outcome \in {"built", "skipped", "failed"} :
          build' = IF outcome = "failed"
                   THEN [build_success |-> FALSE, build_error |-> "zensical build failed"]
                   ELSE [build_success |-> TRUE, build_error |-> ""]
    /\ rel_pc' = "done"
    /\ UNCHANGED <<doc_dir, listing, doc_sets, label_index, doc_set_results>>
    /\ UNCHANGED <<urlVars, anchorVars, resVars, navVars, headVars, orchVars,
                 subVars>>

RelNext == DiscoverDocSets \/ BuildLabelIndex \/ ConvertDocSet \/ FinishVersion

(***************************************************************************)
(* Specification of extract_heading on one file                            *)
(***************************************************************************)
HeadIdle ==
    /\ tex_path = <<>>
    /\ tex_exists = FALSE
    /\ tex_headings = <<>>
    /\ tex_text = <<>>
    /\ heading = <<>>
    /\ head_pc = "idle"

HeadInit ==
    /\ tex_path \in HeadingPaths
    /\ tex_exists \in BOOLEAN
    /\ tex_headings \in IF tex_exists THEN HeadingLists ELSE {<<>>}
    /\ tex_text = HeadingText(tex_headings)
    /\ heading = <<>>
    /\ head_pc = "call"

ExtractHeading ==
    /\ head_pc = "call"
    /\ heading' = extract_heading(tex_exists, tex_text, tex_path)
    /\ head_pc' = "done"
    /\ UNCHANGED <<tex_path, tex_exists, tex_headings, tex_text>>
    /\ UNCHANGED <<urlVars, anchorVars, resVars, navVars, relVars, orchVars,
                 subVars>>

(***************************************************************************)
(* Specification of convert_all.main: the futures are submitted, each      *)
(* worker runs process_version, the parent collects the futures in the     *)
(* order they complete and merges the successful versions.                 *)
(***************************************************************************)
OrchIdle ==
    /\ versions = <<>>
    /\ max_workers = 0
    /\ force_rebuild = FALSE
    /\ skip_build = FALSE
    /\ site_exists = {}
    /\ sources = <<>>
    /\ workers = <<>>
    /\ futures = <<>>
    /\ results = <<>>
    /\ dist = <<>>
    /\ orch_pc = "idle"

OrchInit ==
    /\ versions \in VersionLists
    /\ max_workers \in 1..MaxPoolWorkers
    /\ force_rebuild \in BOOLEAN
    /\ skip_build \in BOOLEAN
    /\ site_exists \in SUBSET {output_dir_of(versions[i]) : i \in 1..Len(versions)}
    /\ sources \in [{versions[i] : i \in 1..Len(versions)} -> CloneStates]
    /\ workers = <<>>
    /\ futures = <<>>
    /\ results = <<>>
    /\ dist = [dirs |-> <<>>, versions |-> {}]
    /\ orch_pc = "submit"

\* the workers that are running process_version
Running == {v \in DOMAIN workers : workers[v].pc \in {"clone", "convert"}}

\* executor.submit(process_version, v, ...) for every requested version
Submit ==
    /\ orch_pc = "submit"
    /\ workers' = [v \in {versions[i] : i \in 1..Len(versions)} |->
                      [pc |-> "queued", output_dir |-> <<>>,
                       source_dir |-> <<>>, wrote |-> {}]]
    /\ futures' = [v \in {versions[i] : i \in 1..Len(versions)} |-> Pending]
    /\ orch_pc' = "collect"
    /\ UNCHANGED <<versions, max_workers, force_rebuild, skip_build,
                   site_exists, sources, results, dist>>
    /\ UNCHANGED <<urlVars, anchorVars, resVars, navVars, relVars, headVars,
                 subVars>>

\* process_version up to the cache check
CheckCache(v) ==
    /\ v \in DOMAIN workers
    /\ workers[v].pc = "queued"
    /\ Cardinality(Running) < max_workers
    /\ LET output_dir == output_dir_of(v)
       IN  IF ~force_rebuild /\ output_dir \in site_exists
           THEN /\ workers' = [workers EXCEPT ![v].pc = "exit",
                                              ![v].output_dir = output_dir]
                /\ futures' = [futures EXCEPT ![v] =
                                  Returned(VersionResult(v, TRUE, ""))]
           ELSE /\ workers' = [workers EXCEPT ![v].pc = "clone",
                                              ![v].output_dir = output_dir]
                /\ futures' = futures
    /\ UNCHANGED <<versions, max_workers, force_rebuild, skip_build,
                   site_exists, sources, results, dist, orch_pc>>
    /\ UNCHANGED <<urlVars, anchorVars, resVars, navVars, relVars, headVars,
                 subVars>>

\* source_dir = clone_version(version, CLONE_DIR): a complete clone is
\* reused; otherwise what is there is removed and git clones, which succeeds
\* or raises CalledProcessError
CloneVersion(v) ==
    /\ v \in DOMAIN workers
    /\ workers[v].pc = "clone"
    /\ LET target == clone_target(v, CLONE_DIR)
       IN  IF sources[v] = "complete"
           THEN /\ workers' = [workers EXCEPT ![v].pc = "convert",
                                              ![v].source_dir = target]
                /\ UNCHANGED <<sources, futures>>
           ELSE \E cloned \in BOOLEAN :
                   IF cloned
                   THEN /\ sources' = [sources EXCEPT ![v] = "complete"]
                        /\ workers' = [workers EXCEPT ![v].pc = "convert",
                                                      ![v].source_dir = target,
                                                      ![v].wrote = @ \cup {target}]
                        /\ futures' = futures
                   ELSE /\ sources' = [sources EXCEPT ![v] = "partial"]
                        /\ workers' = [workers EXCEPT ![v].pc = "exit",
                                                      ![v].wrote = @ \cup {target}]
                        /\ futures' = [futures EXCEPT ![v] = Raised(CalledProcessError)]
    /\ UNCHANGED <<versions, max_workers, force_rebuild, skip_build,
                   site_exists, results, dist, orch_pc>>
    /\ UNCHANGED <<urlVars, anchorVars, resVars, navVars, relVars, headVars,
                 subVars>>

\* return convert_version(source_dir, output_dir, version,
\*                        skip_build=skip_build, max_workers=file_workers):
\* convert_version has no parameter max_workers, the call raises TypeError
ConvertVersion(v) ==
    /\ v \in DOMAIN workers
    /\ workers[v].pc = "convert"
    /\ workers' = [workers EXCEPT ![v].pc = "exit"]
    /\ futures' = [futures EXCEPT ![v] = Raised(TypeError)]
    /\ UNCHANGED <<versions, max_workers, force_rebuild, skip_build,
                   site_exists, sources, results, dist, orch_pc>>
    /\ UNCHANGED <<urlVars, anchorVars, resVars, navVars, relVars, headVars,
                 subVars>>

\* one iteration of the loop over as_completed(future_to_version)
Collect(v) ==
    /\ orch_pc = "collect"
    /\ v \in DOMAIN futures
    /\ v \notin DOMAIN results
    /\ futures[v].state # "pending"
    /\ results' = collect(results, v, futures[v])
    /\ orch_pc' = IF DOMAIN results' = DOMAIN futures THEN "merge" ELSE "collect"
    /\ UNCHANGED <<versions, max_workers, force_rebuild, skip_build,
                   site_exists, sources, workers, futures, dist>>
    /\ UNCHANGED <<urlVars, anchorVars, resVars, navVars, relVars, headVars,
                 subVars>>

\* the rest of main: the merge of the successful versions
MergeOutputs ==
    /\ orch_pc = "merge"
    /\ dist' = IF ~skip_build /\ DOMAIN successful_versions(results) # {}
               THEN merge_version_outputs(successful_versions(results), dist)
               ELSE dist
    /\ orch_pc' = "done"
    /\ UNCHANGED <<versions, max_workers, force_rebuild, skip_build,
                   site_exists, sources, workers, futures, results>>
    /\ UNCHANGED <<urlVars, anchorVars, resVars, navVars, relVars, headVars,
                 subVars>>

OrchNext ==
    \/ Submit
    \/ \E v \in VersionTags : CheckCache(v)
    \/ \E v \in VersionTags : CloneVersion(v)
    \/ \E v \in VersionTags : ConvertVersion(v)
    \/ \E v \in VersionTags : Collect(v)
    \/ MergeOutputs

(***************************************************************************)
(* Specification of the two resolver calls of postprocess on the text of   *)
(* a page, applied once and then once more to their own result.            *)
(***************************************************************************)
SubIdle ==
    /\ sub_segments = <<>>
    /\ sub_index = <<>>
    /\ sub_current = <<>>
    /\ sub_text = <<>>
    /\ sub_first = <<>>
    /\ sub_pc = "idle"

SubInit ==
    /\ sub_segments \in SegmentLists
    /\ sub_index \in SubIndexes
    /\ sub_current \in {<<>>} \cup SubPages
    /\ sub_text = Concat([i \in 1..Len(sub_segments) |-> sub_segments[i].s])
    /\ sub_first = <<>>
    /\ sub_pc = "eqrefs"

\* text = resolve_equation_references(text, label_index, current_md_path)
SubEquationReferences ==
    /\ sub_pc \in {"eqrefs", "eqrefs again"}
    /\ sub_text' = sub_equation_references(sub_text, 1, sub_index, sub_current)
    /\ sub_pc' = IF sub_pc = "eqrefs" THEN "crossrefs" ELSE "crossrefs again"
    /\ UNCHANGED <<sub_segments, sub_index, sub_current, sub_first>>
    /\ UNCHANGED <<urlVars, anchorVars, resVars, navVars, relVars, headVars,
                 orchVars>>

\* text = resolve_cross_references(text, label_index, current_md_path)
SubCrossReferences ==
    /\ sub_pc \in {"crossrefs", "crossrefs again"}
    /\ sub_text' = sub_cross_references(sub_text, 1, sub_index, sub_current)
    /\ sub_first' = IF sub_pc = "crossrefs" THEN sub_text' ELSE sub_first
    /\ sub_pc' = IF sub_pc = "crossrefs" THEN "eqrefs again" ELSE "done"
    /\ UNCHANGED <<sub_segments, sub_index, sub_current>>
    /\ UNCHANGED <<urlVars, anchorVars, resVars, navVars, relVars, headVars,
                 orchVars>>

SubNext == SubEquationReferences \/ SubCrossReferences

(***************************************************************************)
(* Specifications: one per component, the other components idle            *)
(***************************************************************************)
\* _relative_url on every pair of output pages
InitUrl == UrlInit /\ AnchorIdle /\ ResIdle /\ NavIdle /\ RelIdle /\ HeadIdle /\ OrchIdle
        /\ SubIdle

SpecUrl == InitUrl /\ [][RelativeUrl]_vars

\* _label_to_mjx_anchor on every label
InitAnchor == AnchorInit /\ UrlIdle /\ ResIdle /\ NavIdle /\ RelIdle /\ HeadIdle /\ OrchIdle
        /\ SubIdle

SpecAnchor == InitAnchor /\ [][LabelToMjxAnchor]_vars

\* the reference resolver on one page
InitResolver == ResInit /\ UrlIdle /\ AnchorIdle /\ NavIdle /\ RelIdle /\ HeadIdle /\ OrchIdle
        /\ SubIdle

SpecResolver == InitResolver /\ [][ResNext]_vars

\* generate_nav on one documentation set
InitNav == NavInit /\ UrlIdle /\ AnchorIdle /\ ResIdle /\ RelIdle /\ HeadIdle /\ OrchIdle
        /\ SubIdle

SpecNav == InitNav /\ [][NavNext]_vars

\* convert_version on one release
InitRelease == RelInit /\ UrlIdle /\ AnchorIdle /\ ResIdle /\ NavIdle /\ HeadIdle /\ OrchIdle
        /\ SubIdle

SpecRelease == InitRelease /\ [][RelNext]_vars

\* extract_heading on every file of the model
InitHeading == HeadInit /\ UrlIdle /\ AnchorIdle /\ ResIdle /\ NavIdle /\ RelIdle /\ OrchIdle
        /\ SubIdle

SpecHeading == InitHeading /\ [][ExtractHeading]_vars

\* convert_all.main on every list of versions
InitOrchestrator ==
    OrchInit /\ UrlIdle /\ AnchorIdle /\ ResIdle /\ NavIdle /\ RelIdle /\ HeadIdle
        /\ SubIdle

SpecOrchestrator == InitOrchestrator /\ [][OrchNext]_vars

\* the resolver calls of postprocess on every page text
InitResub ==
    SubInit /\ UrlIdle /\ AnchorIdle /\ ResIdle /\ NavIdle /\ RelIdle /\ HeadIdle
        /\ OrchIdle

SpecResub == InitResub /\ [][SubNext]_vars

(***************************************************************************)
(* Reference semantics used by the properties: what the site and the       *)
(* browser do with the paths and URLs the converter writes.                *)
(***************************************************************************)
\* the directory a page is served at: a/b.md at a/b/, an index page at the
\* directory that contains it
ServedDir(page) ==
    IF page.stem = <<"index">> THEN page.dirs ELSE Append(page.dirs, page.stem)

\* RFC 3986 remove_dot_segments on a list of path segments
RECURSIVE RemoveDotSegments(_, _)
RemoveDotSegments(segs, acc) ==
    IF segs = <<>> THEN acc
    ELSE LET c == Head(segs)
         IN  IF c = <<>> \/ c = <<".">>
             THEN RemoveDotSegments(Tail(segs), acc)
             ELSE IF c = <<"..">>
                  THEN RemoveDotSegments(Tail(segs),
                           IF acc = <<>> THEN acc ELSE DropLast(acc, 1))
                  ELSE RemoveDotSegments(Tail(segs), Append(acc, c))

\* the directory a relative URL denotes when the browser resolves it against
\* the directory base_dir
ResolveUrl(base_dir, url) == RemoveDotSegments(base_dir \o SplitSlash(url), <<>>)

\* percent-decoding of a URL fragment (the hex digits of the model are 3 and A;
\* a lone byte above 7F decodes to the replacement character)
HexPairs == {<<"3", "3">>, <<"3", "A">>, <<"A", "3">>, <<"A", "A">>}

DecodedPair(pair) ==
    IF pair = <<"3", "A">> THEN ":"
    ELSE IF pair = <<"3", "3">> THEN "3"
    ELSE "U+FFFD"

RECURSIVE PercentDecode(_)
PercentDecode(s) ==
    IF s = <<>> THEN <<>>
    ELSE IF s[1] = "%" /\ Len(s) >= 3 /\ SubSeq(s, 2, 3) \in HexPairs
         THEN <<DecodedPair(SubSeq(s, 2, 3))>> \o PercentDecode(DropFirst(s, 3))
         ELSE <<s[1]>> \o PercentDecode(Tail(s))

(***************************************************************************)
(* Properties                                                              *)
(***************************************************************************)
\* C1: relative URL law.  For every pair of output pages, the URL returned by
\* _relative_url(target, current), resolved against the current page's served
\* directory, is the target page's served directory; the URL ends with "/";
\* and for current = target it is exactly "./".
C1_RelativeUrlLaw ==
    url_pc = "done" =>
        /\ ResolveUrl(ServedDir(url_pages.current), url_result)
               = ServedDir(url_pages.target)
        /\ EndsWith(url_result, <<"/">>)
        /\ (url_pages.current = url_pages.target => url_result = <<".", "/">>)

\* C1 witness: the URL from a nested index page to a page in another
\* directory has been computed, and so has the URL of a page to itself.
C1_Witness ==
    /\ url_pc = "done"
    /\ url_pages.current.stem = <<"index">>
    /\ Len(url_pages.current.dirs) = 2
    /\ url_pages.target.stem # <<"index">>
    /\ url_pages.target.dirs[1] # url_pages.current.dirs[1]
    /\ url_result[1] = ".."

\* C8: anchor round trip.  For every label, percent-decoding the anchor
\* returned by _label_to_mjx_anchor gives "mjx-eqn-" followed by the label.
C8_AnchorRoundTrip ==
    anchor_pc = "done" =>
        PercentDecode(anchor_result) = <<"mjx-eqn-">> \o anchor_label

(***************************************************************************)
(* Reading the resolver's output                                           *)
(***************************************************************************)
\* the placeholder of the converted text, and what the resolver made of it
Ph == res_input[2]
Out == res_text[2].s
Ref == res_index[Ph.label]

\* index of the first atom of s at or after position from that satisfies Test
FirstAt(s, from, Test(_)) ==
    LET hits == {i \in from..Len(s) : Test(s[i])}
    IN  IF hits = {} THEN 0 ELSE CHOOSE i \in hits : \A j \in hits : i <= j

\* the part of s before its first "#", and the part after it
BeforeHash(s) ==
    LET k == FirstAt(s, 1, LAMBDA c : c = "#")
    IN  IF k = 0 THEN s ELSE SubSeq(s, 1, k - 1)

AfterHash(s) ==
    LET k == FirstAt(s, 1, LAMBDA c : c = "#")
    IN  IF k = 0 THEN <<>> ELSE DropFirst(s, k)

\* the value of attribute name in an HTML start tag: from the quote after the
\* name to the next quote
AttrValue(tag, name) ==
    LET i == FirstAt(tag, 1, LAMBDA c : c = name)
        j == FirstAt(tag, i + 2, LAMBDA c : c = "\"")
    IN  IF i = 0 \/ j = 0 THEN <<"(no attribute)">> ELSE SubSeq(tag, i + 2, j - 1)

\* the text of an <a> element: from the ">" that ends the start tag (the first
\* one outside quotes) to the end tag
ElementText(el) ==
    LET closes == {i \in 1..Len(el) :
                      /\ el[i] = ">"
                      /\ Cardinality({j \in 1..(i - 1) : el[j] = "\""}) % 2 = 0}
    IN  IF closes = {} \/ el[Len(el)] # "</a>" THEN <<"(no element)">>
        ELSE LET k == CHOOSE i \in closes : \A j \in closes : i <= j
             IN  SubSeq(el, k + 1, Len(el) - 1)

\* a Markdown link "[text](destination)"
IsMdLink(s) ==
    /\ Len(s) >= 4
    /\ s[1] = "["
    /\ s[Len(s)] = ")"
    /\ \E k \in 2..(Len(s) - 2) : s[k] = "]" /\ s[k + 1] = "("

MdLinkText(s) == SubSeq(s, 2, FirstAt(s, 1, LAMBDA c : c = "]") - 1)

MdLinkDest(s) == SubSeq(s, FirstAt(s, 1, LAMBDA c : c = "(") + 1, Len(s) - 1)

\* the file a relative path denotes when resolved against a directory
ResolvePath(base_dir, path) == NormComps(base_dir \o SplitSlash(path), <<>>)

\* the file of a page, as path components
PageFile(page) == Append(page.dirs, page.stem \o <<".md">>)

\* the element id MathJax gives the equation of a label, percent-encoded for
\* use in an href
ExpectedAnchor(label) ==
    IF label = <<"eq", ":", "energy-balance">>
    THEN <<"mjx-eqn-", "eq", "%", "3", "A", "energy-balance">>
    ELSE <<"mjx-eqn-", "sec", "%", "3", "A", "missing">>

\* the HTML-escaped form of the equation sources of the model
ExpectedEscaped(latex) ==
    IF latex = <<"x", "<", "y">> THEN <<"x", "&lt;", "y">>
    ELSE IF latex = <<>> THEN <<>>
    ELSE <<"&quot;", "&amp;", "&#x27;", "&gt;">>

\* the placeholder's label is indexed as an equation of another page
EquationCrossPage ==
    /\ res_pc = "done"
    /\ Ph.label \in DOMAIN res_index
    /\ Ref.label_type = "equation"
    /\ Ref.output_path # current_md_path

\* the href, the anchor and the tooltip of a cross-page equation link
CrossPageLinkParts ==
    LET href == AttrValue(Out, " href=")
    IN  /\ Out[1] = "<a"
        /\ ResolveUrl(ServedDir(PageOf(current_md_path)), BeforeHash(href))
               = ServedDir(PageOf(Ref.output_path))
        /\ EndsWith(BeforeHash(href), <<"/">>)
        /\ AfterHash(href) = ExpectedAnchor(Ph.label)
        /\ AttrValue(Out, " data-equation=") = ExpectedEscaped(Ref.equation_latex)

\* scenario B: eq:energy-balance, equation 3 of a/b.md, referenced from a/c.md
ScenarioB ==
    /\ EquationCrossPage
    /\ Ph = CrossrefItem(<<"see">>, <<"eq", ":", "energy-balance">>)
    /\ Ref.output_path = <<"a", "/", "b", ".md">>
    /\ Ref.equation_number = 3
    /\ current_md_path = <<"a", "/", "c", ".md">>

Unresolved == res_pc = "done" /\ Ph.label \notin DOMAIN res_index

SectionReference ==
    /\ res_pc = "done"
    /\ Ph.kind = "crossref"
    /\ Ph.label \in DOMAIN res_index
    /\ Ref.label_type = ""

EquationSamePage ==
    /\ res_pc = "done"
    /\ Ph.label \in DOMAIN res_index
    /\ Ref.label_type = "equation"
    /\ Ref.output_path = current_md_path

\* C9: for either placeholder form, a same-page equation reference becomes the
\* numbered reference $\eqref{label}$, which holds the label and no path, URL
\* or anchor.
C9_SamePageEquation ==
    EquationSamePage =>
        /\ Out = <<"$\\eqref{">> \o Ph.label \o <<"}$">>
        /\ \A i \in 1..Len(Out) : Out[i] \notin {"/", "#", ".md", " href=", "..", "."}

\* C9 witness: an eqref marker for equation 2 of the current page, a nested
\* index page, has been rewritten.
C9_Witness ==
    /\ EquationSamePage
    /\ Ph.kind = "eqref"
    /\ Ref.equation_number = 2
    /\ PageOf(current_md_path).stem = <<"index">>

(***************************************************************************)
(* The include tree of a documentation set                                 *)
(***************************************************************************)
\* The nodes of the include tree, each named by its address: the positions
\* of the \input directives followed from the main file down to it.
RECURSIVE NodesUnder(_, _, _)
NodesUnder(fs, tex, prefix) ==
    IF tex \notin DOMAIN fs THEN {}
    ELSE UNION {
            {Append(prefix, i)} \cup
            (IF fs[tex].includes[i] \in DOMAIN fs
                   /\ fs[fs[tex].includes[i]].includes # <<>>
             THEN NodesUnder(fs, fs[tex].includes[i], Append(prefix, i))
             ELSE {}) :
            i \in 1..Len(fs[tex].includes)}

\* the unit included at an address
RECURSIVE UnitUnder(_, _, _)
UnitUnder(fs, tex, addr) ==
    IF Len(addr) = 1 THEN fs[tex].includes[addr[1]]
    ELSE UnitUnder(fs, fs[tex].includes[addr[1]], Tail(addr))

IsProperPrefix(a, b) == Len(a) < Len(b) /\ SubSeq(b, 1, Len(a)) = a

\* a is an ancestor of b, or branches off to an earlier include
Precedes(a, b) ==
    \/ IsProperPrefix(a, b)
    \/ \E i \in 1..Len(a) :
          /\ i <= Len(b)
          /\ SubSeq(a, 1, i - 1) = SubSeq(b, 1, i - 1)
          /\ a[i] < b[i]

NavNodes == NodesUnder(nav_fs, MainTex, <<>>)

\* the place of a node in depth-first pre-order
PreOrderPos(a) == 1 + Cardinality({b \in NavNodes : Precedes(b, a)})

\* C4: the list returned by parse_input_chain is the depth-first pre-order of
\* the include tree: it holds each node once, each included unit before every
\* unit discovered by recursing into it, and every unit discovered under the
\* i-th include of a file before the (i+1)-th include of that file.
C4_DepthFirstPreOrder ==
    nav_pc \in {"build", "done"} =>
        /\ Len(nav_inputs) = Cardinality(NavNodes)
        /\ \A a \in NavNodes :
              /\ PreOrderPos(a) \in 1..Len(nav_inputs)
              /\ nav_inputs[PreOrderPos(a)] = UnitUnder(nav_fs, MainTex, a)
        /\ \A a, b \in NavNodes :
              IsProperPrefix(a, b) => PreOrderPos(a) < PreOrderPos(b)
        /\ \A a, b \in NavNodes :
              (/\ Len(a) = Len(b)
               /\ DropLast(a, 1) = DropLast(b, 1)
               /\ b[Len(b)] = a[Len(a)] + 1)
              => \A d \in NavNodes :
                    (d = a \/ IsProperPrefix(a, d)) => PreOrderPos(d) < PreOrderPos(b)

\* C4 witness: the first include of the main file has a child with a child of
\* its own, and all three precede the second include.
C4_Witness ==
    /\ nav_pc = "done"
    /\ nav_fs[MainTex].includes = <<UnitA, UnitB>>
    /\ nav_inputs = <<UnitA, UnitAB, UnitAC, UnitB>>

(***************************************************************************)
(* The navigation tree                                                     *)
(***************************************************************************)
\* the unit list without the title page
NavUnitList == SelectSeq(nav_inputs, LAMBDA inp : ~is_title(inp))

\* depth of a unit: the separators in its path below "src/"
Depth(inp) == Cardinality({i \in 1..Len(inp) : i > 2 /\ inp[i] = "/"})

\* the path of a unit's page below the docs root
NavPath(inp) == NavSlug \o <<"/">> \o DropFirst(inp, 2) \o <<".md">>

\* the positions of the list that open a top-level node
TopPositions ==
    {k \in 1..Len(NavUnitList) :
        \/ Depth(NavUnitList[k]) = 0
        \/ \A j \in 1..(k - 1) : Depth(NavUnitList[j]) # 0}

\* the positions attached beneath the top-level node opened at position k
ChildPositions(k) ==
    IF Depth(NavUnitList[k]) # 0 THEN {}
    ELSE {j \in (k + 1)..Len(NavUnitList) :
             \A i \in (k + 1)..j : Depth(NavUnitList[i]) # 0}

\* the r-th smallest element of a set of numbers
Nth(S, r) == CHOOSE k \in S : Cardinality({j \in S : j < k}) = r - 1

\* C5: build_nav_tree returns a tree of two levels in list order: every
\* depth-0 unit opens a top-level node, every deeper unit is a child of the
\* most recently opened top-level node or a top-level node if none is open,
\* and children have no children; [a, a/b, a/c, b] gives [{a: [b, c]}, {b: []}].
C5_TwoLevelTree ==
    nav_pc = "done" =>
        /\ Len(nav_items) = Cardinality(TopPositions)
        /\ \A r \in 1..Len(nav_items) :
              LET k == Nth(TopPositions, r)
                  kids == ChildPositions(k)
                  node == nav_items[r]
              IN  /\ node.path = NavPath(NavUnitList[k])
                  /\ Len(node.children) = Cardinality(kids)
                  /\ \A m \in 1..Len(node.children) :
                        /\ node.children[m].path = NavPath(NavUnitList[Nth(kids, m)])
                        /\ node.children[m].children = <<>>
        /\ (nav_inputs = <<UnitA, UnitAB, UnitAC, UnitB>> =>
               nav_items = <<
                   NavItem(<<"A">>, <<"getting-started", "/", "a", ".md">>, <<
                       NavItem(<<"B">>, <<"getting-started", "/", "a", "/", "b", ".md">>, <<>>),
                       NavItem(<<"C">>, <<"getting-started", "/", "a", "/", "c", ".md">>, <<>>)>>),
                   NavItem(<<"B">>, <<"getting-started", "/", "b", ".md">>, <<>>)>>)

(***************************************************************************)
(* The label declarations of a release                                     *)
(***************************************************************************)
\* the entries of doc/ that are documentation sets
DocSetNames ==
    {n \in DOMAIN doc_dir :
        /\ doc_dir[n].is_dir
        /\ n \notin EXCLUDED_DIRS
        /\ n[1] # "."
        /\ MainTex \in DOMAIN doc_dir[n].fs}

\* the place of a directory name in sorted order
NameRank(n) == CHOOSE i \in 1..Len(SortedNames) : SortedNames[i] = n

\* the unit list of a documentation set, in resolver order
UnitsOf(n) == parse_input_chain(doc_dir[n].fs, MainTex)

\* every label declaration of the release: the doc set, the place of the
\* declaring unit in the unit list, the place of the label in its text, and
\* the unit and the label themselves
UnitDeclarations(n, u, inp) ==
    IF is_title(inp) \/ inp \notin DOMAIN doc_dir[n].fs THEN {}
    ELSE {[set |-> n, unit |-> u, at |-> t, inp |-> inp,
           label |-> doc_dir[n].fs[inp].labels[t]] :
             t \in 1..Len(doc_dir[n].fs[inp].labels)}

SetDeclarations(n, units) ==
    UNION {UnitDeclarations(n, u, units[u]) : u \in 1..Len(units)}

Declarations == UNION {SetDeclarations(n, UnitsOf(n)) : n \in DocSetNames}

DeclaredUnit(x) == x.inp

DeclaredLabel(x) == x.label

DeclarationsOf(label) ==
    {x \in Declarations : DeclaredLabel(x) = label}

\* x is processed before y
Earlier(x, y) ==
    \/ NameRank(x.set) < NameRank(y.set)
    \/ x.set = y.set /\ x.unit < y.unit
    \/ x.set = y.set /\ x.unit = y.unit /\ x.at < y.at

LastDeclaration(label) ==
    CHOOSE x \in DeclarationsOf(label) :
        \A y \in DeclarationsOf(label) : y = x \/ Earlier(y, x)

\* the page of a unit as the index names it: "<slug>/<path below src/>.md"
UnitPage(n, inp) == doc_set_slug_of(n) \o <<"/">> \o DropFirst(inp, 2) \o <<".md">>

IndexBuilt == rel_pc \in {"convert", "finish", "done"} /\ doc_sets # <<>>

\* C3: after build_label_index the index holds exactly the labels declared in
\* the existing non-title units of the documentation sets, each once, with
\* the location of its last declaration in the order (doc sets by sorted
\* directory name, units in resolver order, declarations in textual order),
\* whatever order the directory listing had; fig:layout declared in
\* engineering-reference and in input-output-reference is at the latter's page.
C3_LastDeclarationWins ==
    IndexBuilt =>
        /\ DOMAIN label_index = {l \in IndexLabels : DeclarationsOf(l) # {}}
        /\ \A l \in DOMAIN label_index :
              LET x == LastDeclaration(l)
              IN  /\ label_index[l].label = l
                  /\ label_index[l].output_path = UnitPage(x.set, DeclaredUnit(x))
        /\ (doc_dir[IORef].fs[UnitA].labels = <<FigLayout>> =>
               label_index[FigLayout].output_path
                   = <<"io-reference", "/", "a", ".md">>)

\* C3 witness: fig:layout is declared in a unit of engineering-reference and
\* in input-output-reference, and the directory lists the latter first.
C3_Witness ==
    /\ IndexBuilt
    /\ listing[1] = IORef
    /\ Cardinality({x.set : x \in DeclarationsOf(FigLayout)}) = 2
    /\ label_index[FigLayout].output_path = <<"io-reference", "/", "a", ".md">>

\* the files below docs/ that hold the page of a unit of a doc set
PagesOf(n, inp) ==
    {k \in DOMAIN docs : docs[k].doc_set = n /\ docs[k].unit = inp}

\* C10: for every label, the output_path stored in the index is the location
\* below docs/ at which convert_doc_set writes the declaring unit's page
\* (<slug>/<path>.md, or <slug>/<path>/index.md for a parent unit).
C10_IndexedPathIsWrittenPage ==
    rel_pc = "done" =>
        \A l \in DOMAIN label_index :
            \A k \in PagesOf(LastDeclaration(l).set, DeclaredUnit(LastDeclaration(l))) :
                label_index[l].output_path = k

(***************************************************************************)
(* Kinds and ordinals of the indexed labels                                *)
(***************************************************************************)
\* the declarations made in a block of one kind
KindDeclarations(kind) ==
    {x \in Declarations : LabelEnv(DeclaredLabel(x)) = kind}

\* the 1-based place of an equation declaration among the equation
\* declarations of its output page, in document order
EquationOrdinal(x) ==
    Cardinality({y \in KindDeclarations("equation") :
        /\ y.set = x.set
        /\ DeclaredUnit(y) = DeclaredUnit(x)
        /\ (y = x \/ Earlier(y, x))})

\* the 1-based place of a figure declaration among the figure declarations
\* of its documentation set, in encounter order
FigureOrdinal(x) ==
    Cardinality({y \in KindDeclarations("figure") :
        y.set = x.set /\ (y = x \/ Earlier(y, x))})

\* C11: after the label index is built, every label declared in a
\* display-math block is of kind equation and carries the 1-based position
\* of its declaration among the equation labels of its output page.
C11_EquationOrdinalPerPage ==
    IndexBuilt =>
        \A l \in DOMAIN label_index :
            LabelEnv(l) = "equation" =>
                /\ label_index[l].label_type = "equation"
                /\ label_index[l].equation_number = EquationOrdinal(LastDeclaration(l))

\* C12: after the label index is built, every label declared in a figure
\* block is of kind figure and carries the 1-based position of its
\* declaration among the figure labels of its documentation set.
C12_FigureOrdinalPerDocSet ==
    IndexBuilt =>
        \A l \in DOMAIN label_index :
            LabelEnv(l) = "figure" =>
                /\ label_index[l].label_type = "figure"
                /\ label_index[l].figure_number = FigureOrdinal(LastDeclaration(l))

(***************************************************************************)
(* References to figures                                                   *)
(***************************************************************************)
\* the placeholder's label is indexed as a numbered figure
FigureReference ==
    /\ res_pc = "done"
    /\ Ph.label \in DOMAIN res_index
    /\ Ref.label_type = "figure"
    /\ Ref.figure_number > 0

\* the text a reader sees for the rewritten placeholder
ShownText ==
    IF IsMdLink(Out) THEN MdLinkText(Out)
    ELSE IF Out[1] = "<a" THEN ElementText(Out)
    ELSE Out

\* C13: a reference to a label indexed with kind figure is rewritten as for
\* equations (same page or cross page) and shows the stored figure ordinal
\* as its link text.
C13_FigureLinkTextIsOrdinal ==
    FigureReference => ShownText = str(Ref.figure_number)

(***************************************************************************)
(* The heading of a unit                                                   *)
(***************************************************************************)
\* the level of a heading command
LevelOf(cmd) ==
    CASE cmd = "chapter" -> 0
      [] cmd = "section" -> 1
      [] cmd = "subsection" -> 2
      [] cmd = "subsubsection" -> 3

\* the title of a heading argument: directives replaced by their inner text,
\* other markup deleted, runs of white space collapsed
TitleOf(arg) ==
    CASE arg = PlainArg -> <<"A">>
      [] arg = SpacedArg -> <<"A", " ", "B">>
      [] arg = BrokenArg -> <<"A", " ", "B">>
      [] arg = DirectiveArg -> <<"The", " ", "Big", " ", "Idea">>

\* extract_heading has returned for a file that holds a heading
HeadingFound ==
    /\ head_pc = "done"
    /\ tex_exists
    /\ tex_headings # <<>>

\* C14: the level returned by extract_heading is the level of the heading
\* that occurs first in the text, whatever its kind, its title is that
\* heading's title, and the level is always one of 0, 1, 2, 3.
C14_EarliestHeadingWins ==
    /\ head_pc = "done" => heading.level \in 0..3
    /\ HeadingFound =>
          /\ heading.level = LevelOf(tex_headings[1].cmd)
          /\ (tex_headings[1].arg # DirectiveArg =>
                 heading.title = TitleOf(tex_headings[1].arg))

\* C15: the title returned for a file with headings is the title of one of
\* them, with \textbf{Big} replaced by Big and the text after it kept; it has
\* no backslash or brace and no white space other than single spaces between
\* words.
C15_DirectiveCollapsesToText ==
    HeadingFound =>
        /\ heading.title \in {TitleOf(tex_headings[i].arg) : i \in 1..Len(tex_headings)}
        /\ \A i \in 1..Len(heading.title) :
              /\ heading.title[i] \notin {"\\", "{", "}", "\n"}
              /\ (heading.title[i] = " " =>
                     /\ 1 < i /\ i < Len(heading.title)
                     /\ heading.title[i + 1] # " ")

(***************************************************************************)
(* Chapters and their sections in the unit list                            *)
(***************************************************************************)
\* the first path segment of a unit below "src/"
FirstSegment(inp) == SplitSlash(DropFirst(inp, 2))[1]

\* unit s is a section of chapter c
SectionOf(s, c) ==
    Depth(c) = 0 /\ Depth(s) >= 1 /\ FirstSegment(s) = FirstSegment(c)

\* C16 as stated: in the unit list, every chapter-level unit has an
\* occurrence before each occurrence of a deeper unit that shares its first
\* path segment.
C16_ChapterBeforeSections ==
    nav_pc \in {"build", "done"} =>
        \A i, j \in 1..Len(nav_inputs) :
            SectionOf(nav_inputs[j], nav_inputs[i]) =>
                \E k \in 1..(j - 1) : nav_inputs[k] = nav_inputs[i]

\* C16 amended: a chapter-level unit precedes every section of it that the
\* resolver found by recursing into the chapter's own file; a section that
\* is included from elsewhere stays where its \input directive puts it.
C16_ChapterBeforeOwnIncludes ==
    nav_pc \in {"build", "done"} =>
        \A a, b \in NavNodes :
            (/\ IsProperPrefix(a, b)
             /\ SectionOf(UnitUnder(nav_fs, MainTex, b), UnitUnder(nav_fs, MainTex, a)))
            => /\ PreOrderPos(a) < PreOrderPos(b)
               /\ PreOrderPos(b) <= Len(nav_inputs)
               /\ nav_inputs[PreOrderPos(a)] = UnitUnder(nav_fs, MainTex, a)
               /\ nav_inputs[PreOrderPos(b)] = UnitUnder(nav_fs, MainTex, b)

\* C16 witness: the main file includes section a/b before chapter a, whose
\* file includes a/b again: the section is listed before and after a.
C16_Witness ==
    /\ nav_pc = "done"
    /\ nav_fs[MainTex].includes = <<UnitAB, UnitA>>
    /\ nav_inputs = <<UnitAB, UnitA, UnitAB>>

(***************************************************************************)
(* Orphan sections in the navigation tree                                  *)
(***************************************************************************)
\* the paths of the top-level items and of the children of the tree
TopPaths == {nav_items[r].path : r \in 1..Len(nav_items)}

ChildPathsOf(r) ==
    {nav_items[r].children[m].path : m \in 1..Len(nav_items[r].children)}

\* position j of the unit list holds a section with no chapter of its own
\* before it
OrphanAt(j) ==
    /\ Depth(NavUnitList[j]) >= 1
    /\ \A k \in 1..(j - 1) : ~SectionOf(NavUnitList[j], NavUnitList[k])

\* C17: a depth>=1 unit with no preceding depth-0 unit of the same first path
\* segment is a top-level item of the tree, and the children of a top-level
\* item are only sections of the chapter that opened it.
C17_OrphanWithoutOwnChapter ==
    nav_pc = "done" =>
        /\ \A j \in 1..Len(NavUnitList) :
              OrphanAt(j) => NavPath(NavUnitList[j]) \in TopPaths
        /\ \A r \in 1..Len(nav_items) :
              \A j \in 1..Len(NavUnitList) :
                  NavPath(NavUnitList[j]) \in ChildPathsOf(r) =>
                      \E k \in 1..Len(NavUnitList) :
                          /\ NavPath(NavUnitList[k]) = nav_items[r].path
                          /\ SectionOf(NavUnitList[j], NavUnitList[k])

(***************************************************************************)
(* Missing include targets and failed conversions                          *)
(***************************************************************************)
\* the units of a documentation set that convert_doc_set is to convert
NonTitleUnits(n) == SelectSeq(UnitsOf(n), LAMBDA inp : ~is_title(inp))

IsMissing(n, inp) == inp \notin DOMAIN doc_dir[n].fs

\* the elements of a sequence
Range(seq) == {seq[i] : i \in 1..Len(seq)}

\* a documentation set whose unit list holds a missing unit
HasMissingUnit(n) == \E inp \in Range(NonTitleUnits(n)) : IsMissing(n, inp)

\* C18: a missing include target is tolerated: the unit list still holds
\* every include of the main file, the labels of the existing units are
\* indexed, and the result of the documentation set holds one failed
\* ConversionResult "Source file not found" at the place of each missing unit
\* and a result of an attempted conversion for every other unit.
C18_MissingTargetTolerated ==
    rel_pc = "done" =>
        \A r \in 1..Len(doc_set_results) :
            LET n == doc_set_results[r].doc_set
                fs == doc_dir[n].fs
                units == NonTitleUnits(n)
                file_results == doc_set_results[r].file_results
            IN  HasMissingUnit(n) =>
                /\ Range(fs[MainTex].includes) \subseteq Range(UnitsOf(n))
                /\ Len(UnitsOf(n)) >= Len(fs[MainTex].includes)
                /\ \A inp \in Range(units) :
                      ~IsMissing(n, inp) => Range(fs[inp].labels) \subseteq DOMAIN label_index
                /\ Len(file_results) = Len(units)
                /\ \A k \in 1..Len(units) :
                      /\ file_results[k].source = units[k]
                      /\ IF IsMissing(n, units[k])
                         THEN /\ ~file_results[k].success
                              /\ file_results[k].error = "Source file not found"
                         ELSE /\ file_results[k].error # "Source file not found"
                              /\ (file_results[k].success =>
                                     file_results[k].output \in DOMAIN docs)

\* C18 witness: src/a of engineering-reference is missing and src/a/b, listed
\* after it, has been converted and its label indexed.
C18_Witness ==
    /\ rel_pc = "done"
    /\ doc_sets # <<>>
    /\ doc_dir[EngRef].fs[MainTex].includes = <<UnitA, UnitAB>>
    /\ IsMissing(EngRef, UnitA)
    /\ \E r \in 1..Len(doc_set_results) :
          /\ doc_set_results[r].doc_set = EngRef
          /\ Len(doc_set_results[r].file_results) = 2
          /\ ~doc_set_results[r].file_results[1].success
          /\ doc_set_results[r].file_results[2].success
    /\ <<"engineering-reference", "/", "a", "/", "b", ".md">> \in DOMAIN docs
    /\ doc_dir[EngRef].fs[UnitAB].labels = <<FigLayout>>
    /\ FigLayout \in DOMAIN label_index
\* C19: a failed conversion of a unit is recorded and isolated: the result of
\* a documentation set holds one ConversionResult per non-title unit, in
\* resolver order, a failed one carries an error message and a successful
\* one names a written page, and the two counts add up to the number of
\* results.
C19_ConversionFailureIsolated ==
    rel_pc = "done" =>
        \A r \in 1..Len(doc_set_results) :
            LET units == NonTitleUnits(doc_set_results[r].doc_set)
                file_results == doc_set_results[r].file_results
            IN  /\ Len(file_results) = Len(units)
                /\ \A k \in 1..Len(units) :
                      /\ file_results[k].source = units[k]
                      /\ IF file_results[k].success
                         THEN file_results[k].output \in DOMAIN docs
                         ELSE file_results[k].error # ""
                /\ success_count(file_results) + failure_count(file_results)
                       = Len(file_results)

\* C19 witness: the conversion of src/a/b, the first unit of
\* engineering-reference, timed out, and src/a after it has been converted.
C19_Witness ==
    /\ rel_pc = "done"
    /\ \E r \in 1..Len(doc_set_results) :
          LET file_results == doc_set_results[r].file_results
          IN  /\ doc_set_results[r].doc_set = EngRef
              /\ Len(file_results) >= 2
              /\ file_results[1].source = UnitAB
              /\ file_results[1].error = "Pandoc timed out after 60s"
              /\ file_results[2].source = UnitA
              /\ file_results[2].success
              /\ failure_count(file_results) = 1

(***************************************************************************)
(* A release without documentation sets or without units                   *)
(***************************************************************************)
\* nothing of the release was indexed, converted or built
NothingDone ==
    /\ label_index = <<>>
    /\ docs = <<>>
    /\ doc_set_results = <<>>

\* the VersionResult reports a failure
FailureSurfaced == ~build.build_success /\ build.build_error # ""

\* no documentation set of the release has a unit
NoUnits == \A n \in DocSetNames : UnitsOf(n) = <<>>

\* C20 as stated: when no content unit is discovered, convert_version ends
\* with nothing indexed, converted or built and with a VersionResult that
\* has build_success false and a non-empty build_error.
C20_NoUnitsAborts ==
    (rel_pc = "done" /\ NoUnits) => (NothingDone /\ FailureSurfaced)

\* C20 amended: convert_version aborts exactly when discover_doc_sets finds
\* no documentation set: it then ends at once with nothing indexed,
\* converted or built and build_error "No doc sets found"; when a
\* documentation set is found, every set is converted and the index page
\* written, also when the sets hold no units.
C20_NoDocSetsAborts ==
    /\ rel_pc \in {"index", "convert", "finish"} => doc_sets # <<>>
    /\ rel_pc = "done" =>
          IF DocSetNames = {}
          THEN /\ doc_sets = <<>>
               /\ NothingDone
               /\ ~build.build_success
               /\ build.build_error = "No doc sets found"
          ELSE /\ Len(doc_set_results) = Len(doc_sets)
               /\ Len(doc_sets) = Cardinality(DocSetNames)
               /\ <<"index", ".md">> \in DOMAIN docs

\* C20 witness: doc/ holds engineering-reference and input-output-reference
\* as directories without a main .tex file, and convert_version has returned.
C20_Witness ==
    /\ rel_pc = "done"
    /\ doc_dir[EngRef].is_dir
    /\ MainTex \notin DOMAIN doc_dir[EngRef].fs
    /\ doc_sets = <<>>
    /\ build.build_error = "No doc sets found"

(***************************************************************************)
(* Order of the phases of a release                                        *)
(***************************************************************************)
\* the pages written by converting a unit
UnitPages == {k \in DOMAIN docs : docs[k].unit # <<>>}

\* a unit has been converted or a documentation set finished
ConversionStarted == docs # <<>> \/ doc_set_results # <<>>

\* the index holds every label declared in an existing non-title unit of
\* any documentation set
IndexComplete == {DeclaredLabel(x) : x \in Declarations} \subseteq DOMAIN label_index

\* C21: the phases of a release are ordered: nothing is converted before the
\* label index has been built, the index then holds the labels of every unit
\* of every documentation set, every written page was resolved against that
\* index, and no step after build_label_index changes the index.
C21_PhasesOrdered ==
    /\ [](/\ ConversionStarted => rel_pc \in {"convert", "finish", "done"}
          /\ rel_pc \in {"discover", "index"} => label_index = <<>>
          /\ IndexBuilt => IndexComplete
          /\ \A k \in UnitPages : docs[k].postprocess.label_index = label_index)
    /\ [][rel_pc # "index" => label_index' = label_index]_vars

\* C21 witness: pages of engineering-reference and of input-output-reference
\* have been written, each documentation set declares a label, and both
\* labels are in the index the pages were resolved against.
C21_Witness ==
    /\ rel_pc = "done"
    /\ {docs[k].doc_set : k \in UnitPages} = {EngRef, IORef}
    /\ \A n \in {EngRef, IORef} : \E x \in Declarations : x.set = n
    /\ \A k \in UnitPages :
          {DeclaredLabel(x) : x \in Declarations}
              \subseteq DOMAIN docs[k].postprocess.label_index

(***************************************************************************)
(* The title page in the unit list                                         *)
(***************************************************************************)
\* C22: the list returned by parse_input_chain holds no entry equal to
\* src/title or ending in /title.
C22_SentinelNeverReturned ==
    nav_pc \in {"build", "done"} =>
        \A i \in 1..Len(nav_inputs) : ~is_title(nav_inputs[i])

(***************************************************************************)
(* The orchestrator and its workers                                        *)
(***************************************************************************)
\* the requested versions
Requested == {versions[i] : i \in 1..Len(versions)}

\* the versions whose result says the build succeeded
Succeeded == {v \in DOMAIN results : results[v].build_success}

\* C23: a worker that raises is reported as a failed VersionResult of its own
\* version (build_success false, build_error set), a worker that returns has
\* its result recorded as returned, recording a result changes no other
\* version's result, at the end every requested version has one result, and
\* the deployment directory holds exactly the versions that succeeded (none
\* when the build is skipped).
C23_WorkerFailureIsolated ==
    /\ [](/\ \A v \in DOMAIN results :
                /\ results[v].version = v
                /\ futures[v].state = "raised" =>
                      /\ ~results[v].build_success
                      /\ results[v].build_error # ""
                /\ futures[v].state = "returned" => results[v] = futures[v].result
          /\ orch_pc \in {"merge", "done"} => DOMAIN results = Requested
          /\ orch_pc # "done" => dist.versions = {}
          /\ orch_pc = "done" =>
                /\ dist.versions = IF skip_build THEN {} ELSE Succeeded
                /\ DOMAIN dist.dirs = {version_to_short(v) : v \in dist.versions})
    /\ [][\A v \in DOMAIN results : v \in DOMAIN results' /\ results'[v] = results[v]]_vars

\* C23 witness: of two requested versions the worker of v25.2.0 raised and
\* the worker of v25.1.0 returned; main has finished and only v25.1.0 is
\* deployed.
C23_Witness ==
    /\ orch_pc = "done"
    /\ Requested = {V2510, V2520}
    /\ futures[V2520].state = "raised"
    /\ futures[V2510].state = "returned"
    /\ ~results[V2520].build_success
    /\ results[V2510].build_success
    /\ dist.versions = {V2510}

(***************************************************************************)
(* The page identity given to the resolver                                 *)
(***************************************************************************)
\* C24: for every unit converted by convert_doc_set, postprocess is called
\* with current_md_path equal to the path below docs/ at which the unit's
\* page is written.
C24_ResolverKnowsCurrentPage ==
    \A k \in UnitPages : docs[k].postprocess.current_md_path = k

(***************************************************************************)
(* What the resolver leaves in the text of a page                          *)
(***************************************************************************)
\* the string holds a placeholder of either form: the "](#crossref:" of a
\* cross-reference link or the marker of an equation reference
HasPlaceholder(s) ==
    \E i \in 1..Len(s) :
        \/ s[i] = SpanOpen
        \/ /\ i + 4 <= Len(s)
           /\ SubSeq(s, i, i + 4) = <<"]", "(", "#", "crossref", ":">>

\* what the resolver makes of one piece of the text taken alone
Rewritten(segment) ==
    IF segment.kind = "text" THEN segment.s
    ELSE resolve_references(segment.s, sub_index, sub_current)

\* C25: after resolve_equation_references and resolve_cross_references the
\* text holds no placeholder of either form, the text outside the
\* placeholders is as it was, and applying the two again changes nothing.
C25_AllPlaceholdersRewritten ==
    sub_pc = "done" =>
        /\ ~HasPlaceholder(sub_first)
        /\ sub_first = Concat([i \in 1..Len(sub_segments) |-> Rewritten(sub_segments[i])])
        /\ sub_text = sub_first

(***************************************************************************)
(* Parent units                                                            *)
(***************************************************************************)
\* the path below docs/ of a unit written as an index page in a folder
\* named after the unit
IndexPageOf(n, inp) ==
    doc_set_slug_of(n) \o <<"/">> \o DropFirst(inp, 2) \o <<"/", "index", ".md">>

\* recursing into the unit's own \input directives discovers a unit
HasIncludedUnits(n, inp) ==
    inp \in DOMAIN doc_dir[n].fs /\ doc_dir[n].fs[inp].includes # <<>>

\* C26: a converted unit is written as an index page in a folder named after
\* it, with a child table of contents, if and only if its own file
\* includes a unit.
C26_ParentIffIncludesUnits ==
    \A k \in UnitPages :
        LET n == docs[k].doc_set
            inp == docs[k].unit
        IN  (k = IndexPageOf(n, inp) /\ docs[k].toc # <<>>) <=> HasIncludedUnits(n, inp)

(***************************************************************************)
(* Navigation paths and written pages                                      *)
(***************************************************************************)
\* the navigation tree generate_nav builds for a documentation set
NavTreeOf(n) ==
    build_nav_tree(UnitsOf(n), doc_dir[n].fs, doc_set_slug_of(n))

\* the paths of the items of a navigation tree, children included
NavPathsOf(n) ==
    LET items == NavTreeOf(n)
    IN  {items[i].path : i \in 1..Len(items)}
            \cup UNION {{items[i].children[j].path :
                            j \in 1..Len(items[i].children)} : i \in 1..Len(items)}

\* the path the navigation tree records for a unit
NavPathOf(n, inp) == doc_set_slug_of(n) \o <<"/">> \o input_path_to_md_path(inp)

\* C27: for every non-title unit of a documentation set whose page has been
\* written, the path of its navigation item is the path below docs/ of that
\* page, also when the unit is a parent written as <unit>/index.md.
C27_NavPathIsWrittenPage ==
    rel_pc = "done" =>
        \A k \in UnitPages :
            /\ NavPathOf(docs[k].doc_set, docs[k].unit) \in NavPathsOf(docs[k].doc_set)
            /\ k = NavPathOf(docs[k].doc_set, docs[k].unit)

(***************************************************************************)
(* Output paths of the units of a documentation set                        *)
(***************************************************************************)
\* C28: within a documentation set the pages of two different units are
\* written to different paths.
C28_OutputPathsInjective ==
    \A r \in 1..Len(doc_set_results) :
        LET file_results == doc_set_results[r].file_results
        IN  \A i, j \in 1..Len(file_results) :
                (/\ file_results[i].success
                 /\ file_results[j].success
                 /\ file_results[i].source # file_results[j].source)
                    => file_results[i].output # file_results[j].output

(***************************************************************************)
(* The depth of a unit in the three places that derive it                  *)
(***************************************************************************)
\* the segment count of build_nav_tree and of _build_parent_children_map
SegmentCount(inp) == Len(SplitSlash(remove_src(inp)))

\* the units _build_parent_children_map lists as children
MappedChildren ==
    LET parent_children == build_parent_children_map(nav_inputs)
    IN  UNION {Range(parent_children[p]) : p \in DOMAIN parent_children}

\* C29: for every unit of the list the depth is the number of segments of
\* its path below the leading "src/" minus one, and the segment count of
\* build_nav_tree and _build_parent_children_map and the slash count of
\* _output_path_for_input give that same depth.
C29_DepthAgrees ==
    nav_pc = "done" =>
        \A inp \in Range(NavUnitList) :
            /\ SegmentCount(inp) - 1 = Depth(inp)
            /\ inp \in MappedChildren <=> Depth(inp) >= 1
            /\ output_path_for_input(inp, NavSlug, FALSE).rel_depth = Depth(inp)
            /\ Depth(inp) = Len(SplitSlash(DropFirst(inp, 2))) - 1

\* the workers that have been given their directories
Started == {v \in DOMAIN workers : workers[v].pc # "queued"}

\* C30: the workers of two different versions are given different build
\* output directories and different clone directories, and no directory is
\* written by both.
C30_WorkersShareNoDirectory ==
    \A v, w \in Started :
        v # w =>
            /\ workers[v].output_dir # workers[w].output_dir
            /\ clone_target(v, CLONE_DIR) # clone_target(w, CLONE_DIR)
            /\ workers[v].wrote \cap workers[w].wrote = {}

====
